---- MODULE Spec2Model ----
(***************************************************************************)
(* A model of the lc3-vm execution engine (crate lc3): the register file,  *)
(* the memory unit with its memory-mapped I/O overlay, the instruction     *)
(* decoder, the image loader, the per-opcode semantics, both trap paths    *)
(* and the run loop driven by the machine control register.                *)
(*                                                                         *)
(* Words are naturals below 2^16; every arithmetic result is reduced       *)
(* modulo 2^16 where the source uses wrapping_add or a u16 bit operation.  *)
(***************************************************************************)
EXTENDS Integers, Sequences, FiniteSets, TLC

VARIABLES registers, pc, cc, words, io, runState, runVirt, runAddr, nsteps, nhost, last,
          dec, call, cli

vars == <<registers, pc, cc, words, io, runState, runVirt, runAddr, nsteps, nhost, last, dec, call,
          cli>>

(***************************************************************************)
(* Bounds of the exploration.                                              *)
(***************************************************************************)
\* Instructions executed in one behaviour (single steps and run iterations).
MaxSteps == 2
\* Host set-up operations (image loads, register pokes, key presses, device
\* failure) made before execution starts.
MaxHostOps == 2

(***************************************************************************)
(* u16 arithmetic and bit operations.                                      *)
(***************************************************************************)
WORD == 65536

Word == 0 .. (WORD - 1)

\* u16::wrapping_add
wrapping_add(a, b) == (a + b) % WORD

Pow2(n) == 2 ^ n

\* self >> b on u16
Shr(w, b) == w \div Pow2(b)

RECURSIVE BitAndN(_, _, _)
BitAndN(a, b, n) ==
    IF n = 0 THEN 0
    ELSE (a % 2) * (b % 2) + 2 * BitAndN(a \div 2, b \div 2, n - 1)

\* a & b on u16
BitAnd(a, b) == BitAndN(a, b, 16)

RECURSIVE BitOrN(_, _, _)
BitOrN(a, b, n) ==
    IF n = 0 THEN 0
    ELSE (IF (a % 2) + (b % 2) > 0 THEN 1 ELSE 0)
         + 2 * BitOrN(a \div 2, b \div 2, n - 1)

\* a | b on u16
BitOr(a, b) == BitOrN(a, b, 16)

\* !a on u16
BitNot(a) == (WORD - 1) - a

\* a conversion to u8 that keeps the whole word
AsU8_wide(w) == w

\* value as u8
AsU8(w) == w % 256

(***************************************************************************)
(* Condition codes (condcodes.rs): a 3-bit set, N = 4, Z = 2, P = 1.       *)
(***************************************************************************)
CC_NONE == 0
CC_N == 4
CC_Z == 2
CC_P == 1
CC_ALL == 7

CondCodes == 0 .. 7

cc_union(a, b) == BitOr(a, b)

cc_intersection(a, b) == BitAnd(a, b)

cc_from_u16(value) == BitAnd(value, 7)

\* from_signum without the sign test
cc_from_signum_unsigned(num) == IF num = 0 THEN CC_Z ELSE CC_P

cc_from_signum(num) ==
    IF num = 0 THEN CC_Z
    ELSE IF Shr(num, 15) # 0 THEN CC_N
    ELSE CC_P

cc_is(a, b) == a = b

cc_none(a) == cc_is(a, CC_NONE)

cc_any(a) == ~cc_none(a)

\* intersects that asks for every flag of b to be in a
cc_intersects_contains(a, b) == cc_is(cc_intersection(a, b), b)

cc_intersects(a, b) == cc_any(cc_intersection(a, b))

(***************************************************************************)
(* Opcodes and trap codes (opcode.rs, trapcode.rs).                        *)
(***************************************************************************)
\* enum OpCode in declaration order: discriminants 0 .. 15.
OpCodeNames ==
    << "Br", "Add", "Ld", "St", "Jsr", "And", "Ldr", "Str",
       "Rti", "Not", "Ldi", "Sti", "Jmp", "Res", "Lea", "Trap" >>

\* a decoding that takes every code outside 0x20 .. 0x25 for HALT
trapcode_from_u16_halt(value) ==
    LET v == BitAnd(value, 255) IN
    CASE v = 32 -> "Getc"
      [] v = 33 -> "Out"
      [] v = 34 -> "Puts"
      [] v = 35 -> "In"
      [] v = 36 -> "PutSp"
      [] OTHER -> "Halt"

\* TrapCode::from_u16: partial, "None" outside 0x20 .. 0x25.
trapcode_from_u16(value) ==
    LET v == BitAnd(value, 255) IN
    CASE v = 32 -> "Getc"
      [] v = 33 -> "Out"
      [] v = 34 -> "Puts"
      [] v = 35 -> "In"
      [] v = 36 -> "PutSp"
      [] v = 37 -> "Halt"
      [] OTHER -> "None"

(***************************************************************************)
(* Instruction decoder (decode.rs).                                        *)
(***************************************************************************)
\* Reg::from_u16
reg_from_u16(value) == BitAnd(value, 7)

\* an opcode decoded from three bits of the four
opcode_three_bits(inst) == OpCodeNames[(Shr(inst, 12) % 8) + 1]

opcode(inst) == OpCodeNames[Shr(inst, 12) + 1]

condcodes(inst) == cc_from_u16(Shr(inst, 9))

trapcode(inst) == trapcode_from_u16(inst)

reg1(inst) == reg_from_u16(Shr(inst, 9))

reg2(inst) == reg_from_u16(Shr(inst, 6))

reg3(inst) == reg_from_u16(inst)

isbitset(inst, b) == BitAnd(Shr(inst, b), 1) # 0

imm5(inst) ==
    IF BitAnd(inst, 16) = 0 THEN BitAnd(inst, 15) ELSE BitOr(inst, 65520)

imm6(inst) ==
    IF BitAnd(inst, 32) = 0 THEN BitAnd(inst, 31) ELSE BitOr(inst, 65504)

imm8(inst) ==
    IF BitAnd(inst, 128) = 0 THEN BitAnd(inst, 255) ELSE BitOr(inst, 65280)

\* imm9 that extends the sign on bit 7, not on bit 8
imm9_bit7(inst) ==
    IF BitAnd(inst, 128) = 0 THEN BitAnd(inst, 511) ELSE BitOr(inst, 65024)

imm9(inst) ==
    IF BitAnd(inst, 256) = 0 THEN BitAnd(inst, 511) ELSE BitOr(inst, 65024)

imm11(inst) ==
    IF BitAnd(inst, 1024) = 0 THEN BitAnd(inst, 1023) ELSE BitOr(inst, 64512)

(***************************************************************************)
(* I/O device (io.rs, trait IoDevice).  The device is a queue of pending   *)
(* input bytes, a log of the operations it accepted and a failure flag:    *)
(* while the flag is set read, write and flush return Err.  A log entry is *)
(* <<kind, bytes>> with kind "read", "write" or "flush".  The device       *)
(* accepts every byte offered to write, and read on an empty queue         *)
(* returns Ok(0) and leaves the buffer untouched.                          *)
(***************************************************************************)
io_poll(d) == d.inq # << >>

\* a read that hands out the head of the queue and leaves it there
io_read_peek(d) ==
    IF d.fail THEN [err |-> TRUE, byte |-> 0, io |-> d]
    ELSE IF d.inq = << >>
    THEN [err |-> FALSE, byte |-> 0,
          io |-> [d EXCEPT !.log = Append(@, <<"read", << >> >>)]]
    ELSE [err |-> FALSE, byte |-> Head(d.inq),
          io |-> [d EXCEPT !.log = Append(@, <<"read", <<Head(d.inq)>> >>)]]

\* read into a one-byte buffer that was initialised to 0
io_read(d) ==
    IF d.fail THEN [err |-> TRUE, byte |-> 0, io |-> d]
    ELSE IF d.inq = << >>
    THEN [err |-> FALSE, byte |-> 0,
          io |-> [d EXCEPT !.log = Append(@, <<"read", << >> >>)]]
    ELSE [err |-> FALSE, byte |-> Head(d.inq),
          io |-> [d EXCEPT !.inq = Tail(@),
                           !.log = Append(@, <<"read", <<Head(d.inq)>> >>)]]

io_write(d, bytes) ==
    IF d.fail THEN [err |-> TRUE, io |-> d]
    ELSE [err |-> FALSE, io |-> [d EXCEPT !.log = Append(@, <<"write", bytes>>)]]

io_flush(d) ==
    IF d.fail THEN [err |-> TRUE, io |-> d]
    ELSE [err |-> FALSE, io |-> [d EXCEPT !.log = Append(@, <<"flush", << >> >>)]]

(***************************************************************************)
(* Memory unit (memory.rs).  The array of 2^16 words is kept sparsely: a   *)
(* function from the addresses that hold a non-zero word to that word.     *)
(***************************************************************************)
KBSR == 65024
KBDR == 65026
DSR == 65028
DDR == 65030
MCR == 65534

STATUS_ACCEPT == 32768
STATUS_DECLINE == 0

\* IoDeviceRegister::from_u16
ioreg_from_u16(value) ==
    CASE value = KBSR -> "Kbsr"
      [] value = KBDR -> "Kbdr"
      [] value = DSR -> "Dsr"
      [] value = DDR -> "Ddr"
      [] value = MCR -> "Mcr"
      [] OTHER -> "None"

\* self.words[index]
WordAt(m, index) == IF index \in DOMAIN m THEN m[index] ELSE 0

\* self.words[index] = value
WordSet(m, index, value) ==
    IF value = 0
    THEN [x \in (DOMAIN m) \ {index} |-> m[x]]
    ELSE [x \in (DOMAIN m) \cup {index} |-> IF x = index THEN value ELSE m[x]]

\* Memory::read that answers only for the keyboard and reads the display
\* registers from the array
mem_read_display_plain(m, d, index) ==
    LET r == ioreg_from_u16(index) IN
    CASE r = "Kbsr" ->
           [val |-> IF io_poll(d) THEN STATUS_ACCEPT ELSE STATUS_DECLINE, io |-> d]
      [] r = "Kbdr" ->
           IF io_poll(d)
           THEN LET got == io_read(d) IN [val |-> got.byte, io |-> got.io]
           ELSE [val |-> STATUS_DECLINE, io |-> d]
      [] OTHER -> [val |-> WordAt(m, index), io |-> d]

\* Memory::read: the value read and the device afterwards
mem_read(m, d, index) ==
    LET r == ioreg_from_u16(index) IN
    CASE r = "Kbsr" ->
           [val |-> IF io_poll(d) THEN STATUS_ACCEPT ELSE STATUS_DECLINE, io |-> d]
      [] r = "Kbdr" ->
           IF io_poll(d)
           THEN LET got == io_read(d) IN [val |-> got.byte, io |-> got.io]
           ELSE [val |-> STATUS_DECLINE, io |-> d]
      [] r = "Dsr" -> [val |-> STATUS_ACCEPT, io |-> d]
      [] r = "Ddr" -> [val |-> STATUS_DECLINE, io |-> d]
      [] OTHER -> [val |-> WordAt(m, index), io |-> d]

\* Memory::write that drops a write to MCR like the writes to the device
\* registers it ignores
mem_write_mcr_ignored(m, d, index, value) ==
    LET r == ioreg_from_u16(index) IN
    CASE r = "None" -> [words |-> WordSet(m, index, value), io |-> d]
      [] r = "Ddr" ->
           LET w == io_write(d, <<AsU8(value)>>)
               f == io_flush(w.io)
           IN [words |-> m, io |-> f.io]
      [] OTHER -> [words |-> m, io |-> d]

\* Memory::write: the array and the device afterwards
mem_write(m, d, index, value) ==
    LET r == ioreg_from_u16(index) IN
    CASE r \in {"Mcr", "None"} -> [words |-> WordSet(m, index, value), io |-> d]
      [] r = "Ddr" ->
           LET w == io_write(d, <<AsU8(value)>>)
               f == io_flush(w.io)
           IN [words |-> m, io |-> f.io]
      [] OTHER -> [words |-> m, io |-> d]

(***************************************************************************)
(* Image loader (image.rs).  A stream is a sequence of bytes; read(buf)    *)
(* returns as many bytes as the buffer takes or the stream still holds,    *)
(* or fewer when the source hands its bytes out in smaller pieces.         *)
(* The payload is copied into the array's bytes as they lie in memory on a *)
(* little-endian host and every complete word is then converted with       *)
(* u16::from_be.                                                           *)
(***************************************************************************)
Min(a, b) == IF a < b THEN a ELSE b

\* the bytes a single read(buf) with buf.len() = n delivers
stream_read(stream, n) == SubSeq(stream, 1, Min(n, Len(stream)))

\* u16::from_be_bytes
from_be_bytes(hi, lo) == hi * 256 + lo

\* u16::from_be left out: the word as its bytes lie in memory, low byte first
from_be_omitted(first, second) == second * 256 + first

\* u16::from_be of a word whose bytes in memory are (first, second)
from_be(first, second) == first * 256 + second

\* The array after read(slice) has copied `payload` into the bytes that start
\* at word `origin` and the words origin .. end - 1 have been converted.
load_words(m, origin, payload) ==
    LET n == Len(payload)
        end == origin + n \div 2
        value(x) ==
            IF origin <= x /\ x < end
            THEN from_be(payload[2 * (x - origin) + 1], payload[2 * (x - origin) + 2])
            ELSE IF x = end /\ n % 2 = 1
            \* a trailing byte lies in the first byte of the next word, unconverted
            THEN (WordAt(m, x) \div 256) * 256 + payload[n]
            ELSE WordAt(m, x)
        touched == { x \in origin .. end : x < end \/ n % 2 = 1 }
    IN [x \in { y \in (DOMAIN m) \cup touched : value(y) # 0 } |-> value(x)]

\* the bytes a read(buf) with buf.len() = n delivers from a source that hands
\* out at most `chunk` bytes per call (ImageFile::read promises 0 <= n <=
\* buf.len() and no more)
short_read(stream, n, chunk) == stream_read(stream, Min(n, chunk))

\* load_image_into from such a source: one read for the origin, into a
\* buffer that starts as [0; 2], and one read for the payload
load_image_chunked(m, stream, chunk) ==
    LET head == short_read(stream, 2, chunk)
        origin == from_be_bytes(IF Len(head) >= 1 THEN head[1] ELSE 0,
                                IF Len(head) >= 2 THEN head[2] ELSE 0)
        rest == SubSeq(stream, Len(head) + 1, Len(stream))
        payload == short_read(rest, (WORD - origin) * 2, chunk)
    IN load_words(m, origin, payload)

\* load_image_into from a source whose reads deliver all that is asked for
\* or left
load_image_into(m, stream) == load_image_chunked(m, stream, Len(stream))

(***************************************************************************)
(* Execution engine (lc3.rs).  A machine state is the record               *)
(*   [registers, pc, cc, words, io]                                        *)
(* and every instruction is a function from machine states to machine      *)
(* states, as the methods of Lc3 are over &mut self.                       *)
(***************************************************************************)
Regs == 0 .. 7

R0 == 0
R7 == 7

\* setcc that leaves CC as it is
setcc_forgotten(s, dr) == s

\* self.registers.cc = CondCodes::from_signum(self.registers[dr])
setcc(s, dr) == [s EXCEPT !.cc = cc_from_signum(s.registers[dr])]

\* ADD that takes its second operand from SR2 whatever bit 5 says
add_register_only(s, inst) ==
    LET dr == reg1(inst)
        sr1 == reg2(inst)
        value == wrapping_add(s.registers[sr1], s.registers[reg3(inst)])
    IN setcc([s EXCEPT !.registers[dr] = value], dr)

add(s, inst) ==
    LET dr == reg1(inst)
        sr1 == reg2(inst)
        value == IF isbitset(inst, 5)
                 THEN wrapping_add(s.registers[sr1], imm5(inst))
                 ELSE wrapping_add(s.registers[sr1], s.registers[reg3(inst)])
    IN setcc([s EXCEPT !.registers[dr] = value], dr)

and(s, inst) ==
    LET dr == reg1(inst)
        sr1 == reg2(inst)
        value == IF isbitset(inst, 5)
                 THEN BitAnd(s.registers[sr1], imm5(inst))
                 ELSE BitAnd(s.registers[sr1], s.registers[reg3(inst)])
    IN setcc([s EXCEPT !.registers[dr] = value], dr)

not(s, inst) ==
    LET dr == reg1(inst)
        sr == reg2(inst)
    IN setcc([s EXCEPT !.registers[dr] = BitNot(s.registers[sr])], dr)

\* BR taken only when the mask is the very CC
br_exact(s, inst) ==
    IF cc_is(s.cc, condcodes(inst))
    THEN [s EXCEPT !.pc = wrapping_add(s.pc, imm9(inst))]
    ELSE s

br(s, inst) ==
    IF cc_intersects(s.cc, condcodes(inst))
    THEN [s EXCEPT !.pc = wrapping_add(s.pc, imm9(inst))]
    ELSE s

jmp(s, inst) == [s EXCEPT !.pc = s.registers[reg2(inst)]]

\* JSR that saves the link after the jump
jsr_link_late(s, inst) ==
    LET s1 == IF isbitset(inst, 11)
              THEN [s EXCEPT !.pc = wrapping_add(s.pc, imm11(inst))]
              ELSE [s EXCEPT !.pc = s.registers[reg2(inst)]]
    IN [s1 EXCEPT !.registers[R7] = s1.pc]

\* JSR that reads the target before it writes the link
jsr_target_first(s, inst) ==
    LET target == IF isbitset(inst, 11)
                  THEN wrapping_add(s.pc, imm11(inst))
                  ELSE s.registers[reg2(inst)]
    IN [s EXCEPT !.registers[R7] = s.pc, !.pc = target]

jsr(s, inst) ==
    LET s1 == [s EXCEPT !.registers[R7] = s.pc] IN
    IF isbitset(inst, 11)
    THEN [s1 EXCEPT !.pc = wrapping_add(s1.pc, imm11(inst))]
    ELSE [s1 EXCEPT !.pc = s1.registers[reg2(inst)]]

ld(s, inst) ==
    LET dr == reg1(inst)
        addr == wrapping_add(s.pc, imm9(inst))
        r == mem_read(s.words, s.io, addr)
    IN setcc([s EXCEPT !.registers[dr] = r.val, !.io = r.io], dr)

\* LDI that stops at the pointer
ldi_direct(s, inst) ==
    LET dr == reg1(inst)
        addr == wrapping_add(s.pc, imm9(inst))
        r == mem_read(s.words, s.io, addr)
    IN setcc([s EXCEPT !.registers[dr] = r.val, !.io = r.io], dr)

ldi(s, inst) ==
    LET dr == reg1(inst)
        addr == wrapping_add(s.pc, imm9(inst))
        r1 == mem_read(s.words, s.io, addr)
        r2 == mem_read(s.words, r1.io, r1.val)
    IN setcc([s EXCEPT !.registers[dr] = r2.val, !.io = r2.io], dr)

ldr(s, inst) ==
    LET dr == reg1(inst)
        baser == reg2(inst)
        addr == wrapping_add(s.registers[baser], imm6(inst))
        r == mem_read(s.words, s.io, addr)
    IN setcc([s EXCEPT !.registers[dr] = r.val, !.io = r.io], dr)

lea(s, inst) ==
    LET dr == reg1(inst)
        value == wrapping_add(s.pc, imm9(inst))
    IN setcc([s EXCEPT !.registers[dr] = value], dr)

\* ST that sets the condition codes from the register it stores
st_setcc(s, inst) ==
    LET sr == reg1(inst)
        addr == wrapping_add(s.pc, imm9(inst))
        w == mem_write(s.words, s.io, addr, s.registers[sr])
    IN setcc([s EXCEPT !.words = w.words, !.io = w.io], sr)

st(s, inst) ==
    LET sr == reg1(inst)
        addr == wrapping_add(s.pc, imm9(inst))
        w == mem_write(s.words, s.io, addr, s.registers[sr])
    IN [s EXCEPT !.words = w.words, !.io = w.io]

sti(s, inst) ==
    LET sr == reg1(inst)
        addr == wrapping_add(s.pc, imm9(inst))
        r == mem_read(s.words, s.io, addr)
        w == mem_write(s.words, r.io, r.val, s.registers[sr])
    IN [s EXCEPT !.words = w.words, !.io = w.io]

\* STR that takes its base from the program counter
str_from_pc(s, inst) ==
    LET sr == reg1(inst)
        addr == wrapping_add(s.pc, imm6(inst))
        w == mem_write(s.words, s.io, addr, s.registers[sr])
    IN [s EXCEPT !.words = w.words, !.io = w.io]

str(s, inst) ==
    LET sr == reg1(inst)
        baser == reg2(inst)
        addr == wrapping_add(s.registers[baser], imm6(inst))
        w == mem_write(s.words, s.io, addr, s.registers[sr])
    IN [s EXCEPT !.words = w.words, !.io = w.io]

\* TRAP through the trap vector table in memory
trap(s, inst) ==
    LET s1 == [s EXCEPT !.registers[R7] = s.pc]
        r == mem_read(s1.words, s1.io, imm8(inst))
    IN [s1 EXCEPT !.pc = r.val, !.io = r.io]

\* halt that leaves the clock as it is
halt_forgotten(s) == s

\* Lc3::halt
halt(s) ==
    LET w == mem_write(s.words, s.io, MCR, STATUS_DECLINE)
    IN [s EXCEPT !.words = w.words, !.io = w.io]

\* a reset that leaves the clock as it is
reset_forgotten(s) == s

\* Lc3::reset
reset(s) ==
    LET w == mem_write(s.words, s.io, MCR, STATUS_ACCEPT)
    IN [s EXCEPT !.words = w.words, !.io = w.io]

\* should_halt that takes any non-zero MCR for a running clock
should_halt_zero(s) == mem_read(s.words, s.io, MCR).val = 0

\* should_halt testing bit 14 of MCR in place of the clock-enable bit
should_halt_bit14(s) == ~isbitset(mem_read(s.words, s.io, MCR).val, 14)

\* Lc3::should_halt
should_halt(s) == ~isbitset(mem_read(s.words, s.io, MCR).val, 15)

(***************************************************************************)
(* Emulated traps.  A step ends in one of the results                      *)
(*   "Ok"                    Ok(())                                        *)
(*   "Io"                    Err(Error::Io(_))                             *)
(*   "OpCodeNotImplemented"  Err(Error::OpCodeNotImplemented)              *)
(*   "Panic"                 arithmetic overflow panic (overflow checks on)*)
(*   "Fault"                 the process dies on an out-of-bounds read     *)
(* and an outcome is a record [s, result].  The emulated trap returns the  *)
(* set of outcomes the build can produce.                                  *)
(***************************************************************************)
\* b"UNDEFINED TRAP EXECUTED"
MSG_UNDEFINED_TRAP == << 85, 78, 68, 69, 70, 73, 78, 69, 68, 32, 84, 82, 65, 80, 32, 69, 88, 69, 67, 85, 84, 69, 68 >>

\* the prompt without its trailing space
MSG_PROMPT_no_space ==
    <<69, 110, 116, 101, 114, 32, 97, 32, 99, 104, 97, 114, 97, 99, 116, 101, 114, 58>>

\* b"Enter a character: "
MSG_PROMPT == << 69, 110, 116, 101, 114, 32, 97, 32, 99, 104, 97, 114, 97, 99, 116, 101, 114, 58, 32 >>

\* b"HALT\n"
MSG_HALT == << 72, 65, 76, 84, 10 >>

Outcome(s, result) == [s |-> s, result |-> result]

\* What an out-of-bounds scan may find after the last word of the array
\* before it meets a NUL byte.
PastEnd == { << >>, << 170 >> }

RECURSIVE puts_loop(_, _, _)
\* the while loop of the Puts arm, entered with the byte just read at sp
puts_loop(s, sp, byte) ==
    IF byte = 0
    THEN LET f == io_flush(s.io) IN
         IF f.err THEN {Outcome(s, "Io")}
         ELSE {Outcome([s EXCEPT !.io = f.io], "Ok")}
    ELSE LET w == io_write(s.io, <<byte>>) IN
         IF w.err THEN {Outcome(s, "Io")}
         ELSE LET s1 == [s EXCEPT !.io = w.io]
                  sp1 == (sp + 1) % WORD
                  r == mem_read(s1.words, s1.io, sp1)
              IN \* sp += 1 on a u16: panics with overflow checks, wraps without
                 (IF sp + 1 >= WORD THEN {Outcome(s1, "Panic")} ELSE {})
                 \cup puts_loop([s1 EXCEPT !.io = r.io], sp1, AsU8(r.val))

\* byte i of the array as it would lie in memory on a big-endian host
byte_at_big_endian(m, i) ==
    LET w == WordAt(m, i \div 2) IN IF i % 2 = 0 THEN w \div 256 ELSE w % 256

\* byte i of the array as it lies in memory on a little-endian host
byte_at(m, i) ==
    LET w == WordAt(m, i \div 2) IN IF i % 2 = 0 THEN w % 256 ELSE w \div 256

RECURSIVE putsp_scan(_, _)
\* the bytes from byte index i up to the first NUL, and whether the scan
\* ran past the end of the array without meeting one
putsp_scan(m, i) ==
    IF i >= 2 * WORD THEN [bytes |-> << >>, past |-> TRUE]
    ELSE IF byte_at(m, i) = 0 THEN [bytes |-> << >>, past |-> FALSE]
    ELSE LET r == putsp_scan(m, i + 1)
         IN [bytes |-> <<byte_at(m, i)>> \o r.bytes, past |-> r.past]

\* write(slice)?; flush()? of the PutSp arm
putsp_write(s, slice) ==
    LET w == io_write(s.io, slice) IN
    IF w.err THEN Outcome(s, "Io")
    ELSE LET f == io_flush(w.io) IN
         IF f.err THEN Outcome([s EXCEPT !.io = w.io], "Io")
         ELSE Outcome([s EXCEPT !.io = f.io], "Ok")

trap_emulated(s0, inst) ==
    LET s == [s0 EXCEPT !.registers[R7] = s0.pc]
        code == trapcode(inst)
    IN
    CASE code = "None" ->
           LET w == io_write(s.io, MSG_UNDEFINED_TRAP) IN
           IF w.err THEN {Outcome(s, "Io")}
           ELSE {Outcome([s EXCEPT !.io = w.io], "Ok")}
      [] code = "Getc" ->
           LET r == io_read(s.io) IN
           IF r.err THEN {Outcome(s, "Io")}
           ELSE {Outcome(setcc([s EXCEPT !.io = r.io, !.registers[R0] = r.byte], R0), "Ok")}
      [] code = "Out" ->
           LET w == io_write(s.io, <<AsU8(s.registers[R0])>>) IN
           IF w.err THEN {Outcome(s, "Io")}
           ELSE LET f == io_flush(w.io) IN
                IF f.err THEN {Outcome([s EXCEPT !.io = w.io], "Io")}
                ELSE {Outcome([s EXCEPT !.io = f.io], "Ok")}
      [] code = "Puts" ->
           LET sp == s.registers[R0]
               r == mem_read(s.words, s.io, sp)
           IN puts_loop([s EXCEPT !.io = r.io], sp, AsU8(r.val))
      [] code = "In" ->
           LET w1 == io_write(s.io, MSG_PROMPT) IN
           IF w1.err THEN {Outcome(s, "Io")}
           ELSE LET r == io_read(w1.io) IN
                IF r.err THEN {Outcome([s EXCEPT !.io = w1.io], "Io")}
                ELSE LET w2 == io_write(r.io, <<r.byte>>) IN
                     IF w2.err THEN {Outcome([s EXCEPT !.io = r.io], "Io")}
                     ELSE LET f == io_flush(w2.io) IN
                          IF f.err THEN {Outcome([s EXCEPT !.io = w2.io], "Io")}
                          ELSE {Outcome([s EXCEPT !.io = f.io,
                                                  !.registers[R0] = r.byte], "Ok")}
      [] code = "PutSp" ->
           LET scan == putsp_scan(s.words, 2 * s.registers[R0]) IN
           IF scan.past
           THEN {Outcome(s, "Fault")}
                \cup {putsp_write(s, scan.bytes \o g) : g \in PastEnd}
           ELSE {putsp_write(s, scan.bytes)}
      [] code = "Halt" ->
           LET w == io_write(s.io, MSG_HALT) IN
           IF w.err THEN {Outcome(s, "Io")}
           ELSE {Outcome(halt([s EXCEPT !.io = w.io]), "Ok")}

\* a fetch that leaves PC at the address fetched
advance_pc_not(p) == p

\* self.registers.pc = self.registers.pc.wrapping_add(1)
advance_pc(p) == wrapping_add(p, 1)

\* the dispatch of next_instruction_common on the decoded opcode
dispatch(s, inst, virt) ==
    LET op == opcode(inst) IN
    CASE op = "Add" -> {Outcome(add(s, inst), "Ok")}
      [] op = "And" -> {Outcome(and(s, inst), "Ok")}
      [] op = "Not" -> {Outcome(not(s, inst), "Ok")}
      [] op = "Br" -> {Outcome(br(s, inst), "Ok")}
      [] op = "Jmp" -> {Outcome(jmp(s, inst), "Ok")}
      [] op = "Jsr" -> {Outcome(jsr(s, inst), "Ok")}
      [] op = "Ld" -> {Outcome(ld(s, inst), "Ok")}
      [] op = "Ldi" -> {Outcome(ldi(s, inst), "Ok")}
      [] op = "Ldr" -> {Outcome(ldr(s, inst), "Ok")}
      [] op = "Lea" -> {Outcome(lea(s, inst), "Ok")}
      [] op = "St" -> {Outcome(st(s, inst), "Ok")}
      [] op = "Sti" -> {Outcome(sti(s, inst), "Ok")}
      [] op = "Str" -> {Outcome(str(s, inst), "Ok")}
      [] op = "Trap" /\ virt -> trap_emulated(s, inst)
      [] op = "Trap" /\ ~virt -> {Outcome(trap(s, inst), "Ok")}
      [] op \in {"Rti", "Res"} -> {Outcome(s, "OpCodeNotImplemented")}

\* the instruction word fetched at PC
fetch(s) == mem_read(s.words, s.io, s.pc)

next_instruction_common(s, virt) ==
    LET f == fetch(s)
        s1 == [s EXCEPT !.io = f.io, !.pc = advance_pc(s.pc)]
    IN dispatch(s1, f.val, virt)

(***************************************************************************)
(* Inputs of the exploration: image files, register values and key         *)
(* presses the host supplies before it starts execution.                   *)
(***************************************************************************)
USER_PROGRAMS_START == 12288

LAST_ADDRESS == WORD - 1

\* the big-endian bytes of a sequence of words, as an assembler writes them
be_bytes(ws) ==
    [i \in 1 .. 2 * Len(ws) |->
        IF i % 2 = 1 THEN ws[(i + 1) \div 2] \div 256 ELSE ws[i \div 2] % 256]

\* an image file: origin, then the words, all big-endian
Image(origin, ws) == << origin \div 256, origin % 256 >> \o be_bytes(ws)

\* The program assembled at x3000: one line per word.
MainProgram ==
    <<
      18434,    \* x3000  JSR #2
      0,        \* x3001  .FILL x0000
      0,        \* x3002  .FILL x0000
      49600,    \* x3003  RET
      4735,     \* x3004  ADD R1,R1,#-1
      61477,    \* x3005  TRAP x25
      36927,    \* x3006  NOT R0,R0
      4129,     \* x3007  ADD R0,R0,#1
      5121,     \* x3008  ADD R2,R0,R1
      22138,    \* x3009  AND R3,R1,#-6
      21505,    \* x300A  AND R2,R0,R1
      37439,    \* x300B  NOT R1,R0
      20512,    \* x300C  AND R0,R0,#0
      1025,     \* x300D  BRz #1
      4705,     \* x300E  ADD R1,R1,#1
      61477,    \* x300F  TRAP x25
      7,        \* x3010  BR brpad
      518,      \* x3011  BRp brpad
      1029,     \* x3012  BRz brpad
      1540,     \* x3013  BRzp brpad
      2051,     \* x3014  BRn brpad
      2562,     \* x3015  BRnp brpad
      3073,     \* x3016  BRnz brpad
      3584,     \* x3017  BRnzp brpad
      0,        \* x3018  .FILL x0000   (brpad)
      4094,     \* x3019  BRnzp #-2
      20479,    \* x301A  JSR #-1
      58413,    \* x301B  LEA R2,data1
      16512,    \* x301C  JSRR R2
      16832,    \* x301D  JSRR R7
      58410,    \* x301E  LEA R2,data1
      49280,    \* x301F  JMP R2
      9256,     \* x3020  LD R2,data1
      10239,    \* x3021  LD R3,#-1
      42023,    \* x3022  LDI R2,ptr_data
      43049,    \* x3023  LDI R4,ptr_kbdr
      43048,    \* x3024  LDI R4,ptr_kbdr
      43558,    \* x3025  LDI R5,ptr_kbsr
      43559,    \* x3026  LDI R5,ptr_dsr
      44071,    \* x3027  LDI R6,ptr_ddr
      57889,    \* x3028  LEA R1,ptr_data
      25665,    \* x3029  LDR R2,R1,#1
      9766,     \* x302A  LD R3,kbdr_plus1
      26879,    \* x302B  LDR R4,R3,#-1
      58879,    \* x302C  LEA R2,#-1
      58918,    \* x302D  LEA R3,slot
      37503,    \* x302E  NOT R1,R1
      12836,    \* x302F  ST R1,slot
      12835,    \* x3030  ST R1,slot
      37503,    \* x3031  NOT R1,R1
      45600,    \* x3032  STI R1,ptr_slot
      45595,    \* x3033  STI R1,ptr_ddr
      45595,    \* x3034  STI R1,ptr_mcr
      45590,    \* x3035  STI R1,ptr_kbsr
      58397,    \* x3036  LEA R2,slot
      29312,    \* x3037  STR R1,R2,#0
      9241,     \* x3038  LD R2,ddr_plus1
      29375,    \* x3039  STR R1,R2,#-1
      9234,     \* x303A  LD R2,ptr_kbdr
      32384,    \* x303B  STR R7,R2,#0
      61472,    \* x303C  TRAP x20
      61473,    \* x303D  TRAP x21
      57366,    \* x303E  LEA R0,str
      61474,    \* x303F  TRAP x22
      61475,    \* x3040  TRAP x23
      57368,    \* x3041  LEA R0,pstr
      61476,    \* x3042  TRAP x24
      61440,    \* x3043  TRAP x00
      61568,    \* x3044  TRAP x80
      61695,    \* x3045  TRAP xFF
      61478,    \* x3046  TRAP x26
      32768,    \* x3047  RTI
      53248,    \* x3048  RES
      32769,    \* x3049  .FILL x8001   (data1)
      12363,    \* x304A  .FILL data2   (ptr_data)
      4660,     \* x304B  .FILL x1234   (data2)
      65024,    \* x304C  .FILL xFE00   (ptr_kbsr)
      65026,    \* x304D  .FILL xFE02   (ptr_kbdr)
      65028,    \* x304E  .FILL xFE04   (ptr_dsr)
      65030,    \* x304F  .FILL xFE06   (ptr_ddr)
      65534,    \* x3050  .FILL xFFFE   (ptr_mcr)
      65027,    \* x3051  .FILL xFE03   (kbdr_plus1)
      65031,    \* x3052  .FILL xFE07   (ddr_plus1)
      12372,    \* x3053  .FILL slot   (ptr_slot)
      0,        \* x3054  .FILL x0000   (slot)
      72,       \* x3055  'H'   (str)
      329,      \* x3056  'I', high byte 1
      256,      \* x3057  low byte 0, high byte 1
      74,       \* x3058  'J'
      0,        \* x3059  .FILL x0000
      18760,    \* x305A  'H','I'   (pstr)
      289,      \* x305B  '!', high byte 1
      19200,    \* x305C  low byte 0, high byte 'K'
      76,       \* x305D  'L'
      0         \* x305E  .FILL x0000
    >>

\* addresses of MainProgram at which a run with the trap vector table starts
HardwareStarts ==
    {
      12288, 12292, 12294, 12296, 12298, 12300, 12304, 12306, 12308, 12310,
      12313, 12314, 12315, 12317, 12318, 12320, 12322, 12324, 12326, 12328,
      12330, 12332, 12334, 12336, 12337, 12339, 12340, 12341, 12342, 12344,
      12346, 12348, 12355, 12356, 12357, 12359, 12360
    }

\* addresses of MainProgram at which a run with emulated traps starts
VirtualStarts ==
    {
      12288, 12292, 12293, 12294, 12300, 12320, 12334, 12340, 12348, 12350, 12352,
      12353, 12355, 12356, 12357, 12358, 12359, 12360
    }

\* one-word programs assembled at xFFFF
EdgeWords ==
    {
      3586,     \* BRnzp #2
      9727,     \* LD R2,#-1
      58879,    \* LEA R2,#-1
      12801,    \* ST R1,#1
      18434,    \* JSR #2
      61474,    \* TRAP x22
      61476     \* TRAP x24
    }

\* a trap vector table at x0000 .. x00FF: entries x00, x20 .. x25, x80, xFF
VectorTable ==
    [v \in 1 .. 256 |->
        CASE v - 1 = 0 -> 1040
          [] v - 1 \in 32 .. 37 -> 1024 + (v - 1)
          [] v - 1 = 128 -> 1152
          [] v - 1 = 255 -> 1168
          [] OTHER -> 0]

\* the words x3003, xA000, x0000, x4000 at x3000 .. x3003 and x1234 at x4000
LdiScenario ==
    [i \in 1 .. 4097 |->
        CASE i = 1 -> 12291
          [] i = 2 -> 40960
          [] i = 4 -> 16384
          [] i = 4097 -> 4660
          [] OTHER -> 0]

Images ==
    { Image(USER_PROGRAMS_START, MainProgram), Image(0, VectorTable),
      Image(USER_PROGRAMS_START, LdiScenario) }
    \cup { Image(LAST_ADDRESS, << w >>) : w \in EdgeWords }

\* <<register, value>> pairs the host writes into the register file
RegPresets == { << 0, 65535 >>, << 1, 65 >>, << 7, 4660 >> }

CCPresets == { CC_N, CC_Z, CC_P }

PCPresets == { USER_PROGRAMS_START, USER_PROGRAMS_START + 1 }

\* bytes typed at the keyboard
Keys == { 81 }

(***************************************************************************)
(* The state machine.                                                      *)
(*   registers, pc, cc   the register file                                 *)
(*   words, io           the memory unit and the device it owns            *)
(*   runState            "idle", "running" (inside run_common), "ok" and   *)
(*                       "err" (run_common has returned), "dead" (the      *)
(*                       process has panicked or faulted)                  *)
(*   runVirt, runAddr    the arguments of the run in progress              *)
(*   nsteps              instructions executed                             *)
(*   nhost               host operations made while setting up; of no      *)
(*                       use once execution has started, and cleared then  *)
(*   dec                 the decoder's answers for one instruction word    *)
(*                       (used by the specification of the decoder alone)  *)
(*   call                the last call the host made directly on the       *)
(*                       memory unit or the clock (used by the             *)
(*                       specification of those calls alone): its          *)
(*                       arguments, what it returned, the machine before   *)
(*   cli                 the command-line program (main.rs): where it is,  *)
(*                       its arguments, what it has parsed and loaded, the *)
(*                       terminal's attributes and the exit code (used by  *)
(*                       the specification of the command line alone)      *)
(*   last                the last instruction executed: its word, the      *)
(*                       address it was fetched at, the machine state      *)
(*                       before the fetch and its result; forgotten when   *)
(*                       the host changes the machine by starting a run    *)
(***************************************************************************)
VM == [registers |-> registers, pc |-> pc, cc |-> cc, words |-> words, io |-> io]

\* Lc3::new: Registers::new() and Memory::new(iodevice)
NewVM ==
    [registers |-> [r \in Regs |-> 0], pc |-> 0, cc |-> CC_NONE,
     words |-> << >>, io |-> [inq |-> << >>, log |-> << >>, fail |-> FALSE]]

SetVM(s) ==
    /\ registers' = s.registers
    /\ pc' = s.pc
    /\ cc' = s.cc
    /\ words' = s.words
    /\ io' = s.io

NoStep ==
    [op |-> "None", inst |-> 0, p |-> 0, virt |-> FALSE, inrun |-> FALSE,
     pre |-> NewVM, result |-> "Ok"]

\* nothing decoded yet
NoDecode ==
    [done |-> FALSE, inst |-> 0, imm5 |-> 0, imm6 |-> 0, imm8 |-> 0, imm9 |-> 0, imm11 |-> 0]

\* the host has called nothing on the machine directly yet
NoCall == [n |-> 0, kind |-> "none", addr |-> 0, value |-> 0, ret |-> 0, pre |-> NewVM]

\* no process of the command-line program has been started
NoCli ==
    [phase |-> "none", args |-> << >>, i |-> 0, files |-> << >>, fi |-> 0,
     default_os |-> TRUE, virtual_trap_vector_table |-> FALSE,
     stop_options_processing |-> FALSE, lflag |-> {}, prev_ios |-> {},
     termios |-> FALSE, tcfail |-> FALSE, loads |-> << >>, stderr |-> << >>,
     error |-> "none", exit |-> 0]

Init ==
    /\ registers = NewVM.registers
    /\ pc = NewVM.pc
    /\ cc = NewVM.cc
    /\ words = NewVM.words
    /\ io = NewVM.io
    /\ runState = "idle"
    /\ runVirt = FALSE
    /\ runAddr = 0
    /\ nsteps = 0
    /\ nhost = 0
    /\ last = NoStep
    /\ dec = NoDecode
    /\ call = NoCall
    /\ cli = NoCli

\* The host sets the machine up before it executes anything.
CanSetUp == runState = "idle" /\ nsteps = 0 /\ call.n = 0 /\ nhost < MaxHostOps

\* Lc3::load_image
LoadImage(img) ==
    /\ CanSetUp
    /\ words' = load_image_into(words, img)
    /\ nhost' = nhost + 1
    /\ UNCHANGED <<registers, pc, cc, io, runState, runVirt, runAddr, nsteps, last, dec, call, cli>>

\* lc3.registers[r] = v (the register file is a public field)
HostSetReg(r, v) ==
    /\ CanSetUp
    /\ registers' = [registers EXCEPT ![r] = v]
    /\ nhost' = nhost + 1
    /\ UNCHANGED <<pc, cc, words, io, runState, runVirt, runAddr, nsteps, last, dec, call, cli>>

\* lc3.registers.cc = c
HostSetCC(c) ==
    /\ CanSetUp
    /\ cc' = c
    /\ nhost' = nhost + 1
    /\ UNCHANGED <<registers, pc, words, io, runState, runVirt, runAddr, nsteps, last, dec, call, cli>>

\* lc3.registers.pc = addr
HostSetPC(addr) ==
    /\ CanSetUp
    /\ pc' = addr
    /\ nhost' = nhost + 1
    /\ UNCHANGED <<registers, cc, words, io, runState, runVirt, runAddr, nsteps, last, dec, call, cli>>

\* a byte arrives at the device's input
KeyPress(b) ==
    /\ CanSetUp
    /\ io' = [io EXCEPT !.inq = Append(@, b)]
    /\ nhost' = nhost + 1
    /\ UNCHANGED <<registers, pc, cc, words, runState, runVirt, runAddr, nsteps, last, dec, call, cli>>

\* the device starts to fail
DeviceFail ==
    /\ CanSetUp
    /\ ~io.fail
    /\ io' = [io EXCEPT !.fail = TRUE]
    /\ nhost' = nhost + 1
    /\ UNCHANGED <<registers, pc, cc, words, runState, runVirt, runAddr, nsteps, last, dec, call, cli>>

\* what `last` records of a step taken from state s
Record(s, virt, inrun, o) ==
    [op |-> opcode(fetch(s).val), inst |-> fetch(s).val, p |-> s.pc,
     virt |-> virt /\ opcode(fetch(s).val) = "Trap", inrun |-> inrun,
     pre |-> s, result |-> o.result]

\* next_instruction / next_instruction_with_virtual_trap_vector_table
NextInstruction(virt) ==
    /\ runState \in {"idle", "ok", "err"}
    /\ nsteps < MaxSteps
    /\ \E o \in next_instruction_common(VM, virt) :
          /\ SetVM(o.s)
          /\ last' = Record(VM, virt, FALSE, o)
          /\ runState' = IF o.result \in {"Panic", "Fault"} THEN "dead" ELSE "idle"
    /\ nsteps' = nsteps + 1
    /\ nhost' = 0
    /\ UNCHANGED <<runVirt, runAddr, dec, call, cli>>

\* run_common, entry: self.reset(); self.registers.pc = addr.  The host starts
\* a run on the machine it has set up or after an earlier run has returned,
\* not in the middle of single-stepping.
RunAt(addr, virt) ==
    /\ \/ runState = "idle" /\ nsteps = 0
       \/ runState \in {"ok", "err"}
    /\ SetVM([reset(VM) EXCEPT !.pc = addr])
    /\ runState' = "running"
    /\ runVirt' = virt
    /\ runAddr' = addr
    /\ nhost' = 0
    /\ last' = NoStep
    /\ UNCHANGED <<nsteps, dec, call, cli>>

\* run_common, one iteration of the loop
RunStep ==
    /\ runState = "running"
    /\ ~should_halt(VM)
    /\ nsteps < MaxSteps
    /\ \E o \in next_instruction_common(VM, runVirt) :
          /\ SetVM(o.s)
          /\ last' = Record(VM, runVirt, TRUE, o)
          /\ runState' = CASE o.result = "Ok" -> "running"
                           [] o.result \in {"Panic", "Fault"} -> "dead"
                           [] OTHER -> "err"
    /\ nsteps' = nsteps + 1
    /\ UNCHANGED <<runVirt, runAddr, nhost, dec, call, cli>>

\* run_common, exit: should_halt() holds, Ok(()) is returned
RunReturn ==
    /\ runState = "running"
    /\ should_halt(VM)
    /\ runState' = "ok"
    /\ UNCHANGED <<registers, pc, cc, words, io, runVirt, runAddr, nsteps, nhost, last, dec, call, cli>>

Next ==
    \/ \E img \in Images : LoadImage(img)
    \/ \E rv \in RegPresets : HostSetReg(rv[1], rv[2])
    \/ \E c \in CCPresets : HostSetCC(c)
    \/ \E a \in PCPresets : HostSetPC(a)
    \/ \E b \in Keys : KeyPress(b)
    \/ DeviceFail
    \/ \E virt \in BOOLEAN : NextInstruction(virt)
    \/ \E a \in HardwareStarts \cup {LAST_ADDRESS} : RunAt(a, FALSE)
    \/ \E a \in VirtualStarts \cup {LAST_ADDRESS} : RunAt(a, TRUE)
    \/ RunStep
    \/ RunReturn

Spec == Init /\ [][Next]_vars

(***************************************************************************)
(* The decoder alone (decode.rs): the immediate fields of one instruction  *)
(* word, for every 16-bit word.                                            *)
(***************************************************************************)
\* a word is decoded once
DecodeWords == IF dec.done THEN {} ELSE Word

Decode(w) ==
    /\ dec' = [done |-> TRUE, inst |-> w, imm5 |-> imm5(w), imm6 |-> imm6(w),
               imm8 |-> imm8(w), imm9 |-> imm9(w), imm11 |-> imm11(w)]
    /\ UNCHANGED <<registers, pc, cc, words, io, runState, runVirt, runAddr, nsteps,
                   nhost, last, call, cli>>

NextDecode == \E w \in DecodeWords : Decode(w)

SpecDecode == Init /\ [][NextDecode]_vars

(***************************************************************************)
(* The condition codes alone (condcodes.rs): one call of union,            *)
(* intersection and intersects on a pair of sets of flags, or of from_u16  *)
(* and from_signum on a 16-bit word.  `dec` records the arguments and the  *)
(* answers.                                                                *)
(***************************************************************************)
\* a pair is combined once
CondCodesPairs == IF dec.done THEN {} ELSE CondCodes \X CondCodes

CondCodesBinary(a, b) ==
    /\ dec' = [done |-> TRUE, kind |-> "binary", a |-> a, b |-> b,
               union |-> cc_union(a, b), intersection |-> cc_intersection(a, b),
               intersects |-> cc_intersects(a, b), intersects_rev |-> cc_intersects(b, a)]
    /\ UNCHANGED <<registers, pc, cc, words, io, runState, runVirt, runAddr, nsteps,
                   nhost, last, call, cli>>

CondCodesFrom(w) ==
    /\ dec' = [done |-> TRUE, kind |-> "from", w |-> w,
               from_u16 |-> cc_from_u16(w), from_signum |-> cc_from_signum(w)]
    /\ UNCHANGED <<registers, pc, cc, words, io, runState, runVirt, runAddr, nsteps,
                   nhost, last, call, cli>>

NextCondCodes ==
    \/ \E ab \in CondCodesPairs : CondCodesBinary(ab[1], ab[2])
    \/ \E w \in DecodeWords : CondCodesFrom(w)

SpecCondCodes == Init /\ [][NextCondCodes]_vars

(***************************************************************************)
(* The memory unit and the clock called directly (memory.rs, lc3.rs):      *)
(* Lc3::memory is a public field and should_halt, halt and reset are       *)
(* public methods.  The host presses keys, breaks the device or loads an   *)
(* image that lies over the device registers, and then makes up to         *)
(* MaxCalls calls.                                                         *)
(***************************************************************************)
MaxCalls == 3

\* an ordinary word, the device registers and their neighbours, MCR
CallAddrs == {USER_PROGRAMS_START, KBSR, KBSR + 1, KBDR, DSR, DDR, MCR}

\* words with bit 15, the other bits and the low byte set and clear in turn
CallValues == {0, 321, 32767, 65345}

\* an image that stores non-zero words at xFE00 .. xFE06
MmioImage == Image(KBSR, <<4369, 8738, 13107, 17476, 21845, 26214, 30583>>)

\* the bytes the keyboard delivers: one below and one above x80
CallKeys == {81, 200}

CanCall == runState = "idle" /\ nsteps = 0 /\ call.n < MaxCalls

Called(kind, a, v, ret) ==
    call' = [n |-> call.n + 1, kind |-> kind, addr |-> a, value |-> v, ret |-> ret,
             pre |-> VM]

\* lc3.memory.write(a, v)
MemoryWrite(a, v) ==
    /\ CanCall
    /\ LET w == mem_write(words, io, a, v) IN words' = w.words /\ io' = w.io
    /\ Called("write", a, v, 0)
    /\ UNCHANGED <<registers, pc, cc, runState, runVirt, runAddr, nsteps, nhost, last, dec, cli>>

\* lc3.memory.read(a)
MemoryRead(a) ==
    /\ CanCall
    /\ LET r == mem_read(words, io, a) IN io' = r.io /\ Called("read", a, 0, r.val)
    /\ UNCHANGED <<registers, pc, cc, words, runState, runVirt, runAddr, nsteps, nhost,
                   last, dec, cli>>

\* lc3.halt()
CallHalt ==
    /\ CanCall
    /\ SetVM(halt(VM))
    /\ Called("halt", 0, 0, 0)
    /\ UNCHANGED <<runState, runVirt, runAddr, nsteps, nhost, last, dec, cli>>

\* lc3.reset()
CallReset ==
    /\ CanCall
    /\ SetVM(reset(VM))
    /\ Called("reset", 0, 0, 0)
    /\ UNCHANGED <<runState, runVirt, runAddr, nsteps, nhost, last, dec, cli>>

\* lc3.should_halt(): &mut self, it reads MCR through the memory unit
CallShouldHalt ==
    /\ CanCall
    /\ io' = mem_read(words, io, MCR).io
    /\ Called("should_halt", 0, 0, should_halt(VM))
    /\ UNCHANGED <<registers, pc, cc, words, runState, runVirt, runAddr, nsteps, nhost,
                   last, dec, cli>>

NextMemory ==
    \/ LoadImage(MmioImage)
    \/ \E b \in CallKeys : KeyPress(b)
    \/ DeviceFail
    \/ \E a \in CallAddrs, v \in CallValues : MemoryWrite(a, v)
    \/ \E a \in CallAddrs : MemoryRead(a)
    \/ CallHalt
    \/ CallReset
    \/ CallShouldHalt

SpecMemory == Init /\ [][NextMemory]_vars

(***************************************************************************)
(* The loader on its own: images loaded one after the other into a fresh   *)
(* machine, from sources that deliver their bytes in pieces of a given     *)
(* size.  `call` records the stream, the size of the pieces and the        *)
(* machine before the load.                                                *)
(***************************************************************************)
\* images loaded in a behaviour
MaxLoads == 2

\* byte streams: two words at x3000; the same with the last byte missing; two
\* words at xFFFF, where one fits; one word at KBSR; nothing; half an origin;
\* an origin alone; a zero word and another at x3001; a small word at x3000
LoaderStreams ==
    { <<48, 0, 18, 52, 171, 205>>,
      <<48, 0, 18, 52, 171>>,
      <<255, 255, 17, 34, 51, 68>>,
      <<254, 0, 67, 33>>,
      << >>,
      <<48>>,
      <<48, 0>>,
      <<48, 1, 0, 0, 86, 120>>,
      <<48, 0, 0, 7>> }

\* the most bytes a read of the source delivers: 64 is more than any stream
LoaderChunks == {1, 2, 3, 64}

\* lc3.load_image(&mut file)
LoadFrom(stream, chunk) ==
    /\ runState = "idle"
    /\ nsteps = 0
    /\ call.n < MaxLoads
    /\ words' = load_image_chunked(words, stream, chunk)
    /\ call' = [n |-> call.n + 1, kind |-> "load", addr |-> 0, value |-> 0, ret |-> 0,
                pre |-> VM, stream |-> stream, chunk |-> chunk]
    /\ UNCHANGED <<registers, pc, cc, io, runState, runVirt, runAddr, nsteps, nhost,
                   last, dec, cli>>

NextLoader == \E stream \in LoaderStreams, chunk \in LoaderChunks : LoadFrom(stream, chunk)

SpecLoader == Init /\ [][NextLoader]_vars

(***************************************************************************)
(* The command-line program (main.rs) and the terminal adapter it creates  *)
(* (termios.rs).  An argument and a path are sequences of bytes.  The      *)
(* record `cli` holds                                                      *)
(*   phase      "none", "main" (process started), "scan" (the loop over    *)
(*              the arguments in run), "os", "files", "run", "exit"        *)
(*   args, i    the arguments after the program's name, the next to scan   *)
(*   files, fi  the paths collected, the next to load                      *)
(*   default_os, virtual_trap_vector_table, stop_options_processing        *)
(*              the locals of run                                          *)
(*   lflag      c_lflag of the terminal, as the set of the flags set       *)
(*   prev_ios, termios   the attributes the adapter has saved; whether the *)
(*              adapter exists                                             *)
(*   tcfail     the terminal has stopped accepting tcsetattr               *)
(*   loads      the images loaded so far, in order                         *)
(*   stderr     what has been printed on stderr                            *)
(*   error      the kind of the error run has returned, "none" if none     *)
(*   exit       the exit code, once phase = "exit"                         *)
(* The machine the program runs is the one of the other specifications.    *)
(***************************************************************************)
\* arguments on a command line
MaxArgs == 3

OPT_NO_DEFAULT_OS == <<45, 45, 110, 111, 45, 100, 101, 102, 97, 117, 108, 116, 45, 111, 115>>

OPT_VIRTUAL_TRAP_VECTOR_TABLE ==
    <<45, 45, 118, 105, 114, 116, 117, 97, 108, 45, 116, 114, 97, 112, 45, 118, 101, 99,
      116, 111, 114, 45, 116, 97, 98, 108, 101>>

OPT_END == <<45, 45>>

\* a test that takes only "--..." for an option
starts_with_two_dashes(arg) == Len(arg) >= 2 /\ arg[1] = 45 /\ arg[2] = 45

\* arg.as_encoded_bytes().starts_with(b"-")
starts_with_dash(arg) == Len(arg) >= 1 /\ arg[1] = 45

\* include_bytes!("lc3os.obj"): the file is not part of the sources; a trap
\* vector table at x0000 stands for it
lc3os_img == Image(0, VectorTable)

\* The files of the working directory, by path:
\*   "h"   x3000: STI R0,#0; .FILL xFFFE    (stops the clock)
\*   "r"   x3000: RTI
\*   "-x"  x3000: TRAP x21; TRAP x25
\*   "d"   a directory: it opens and every read of it fails
\* and no other path exists.
open(path) ==
    CASE path = <<104>> ->
           [found |-> TRUE, readable |-> TRUE,
            bytes |-> Image(USER_PROGRAMS_START, <<45056, 65534>>)]
      [] path = <<114>> ->
           [found |-> TRUE, readable |-> TRUE,
            bytes |-> Image(USER_PROGRAMS_START, <<32768>>)]
      [] path = <<45, 120>> ->
           [found |-> TRUE, readable |-> TRUE,
            bytes |-> Image(USER_PROGRAMS_START, <<61473, 61477>>)]
      [] path = <<100>> -> [found |-> TRUE, readable |-> FALSE, bytes |-> << >>]
      [] OTHER -> [found |-> FALSE, readable |-> FALSE, bytes |-> << >>]

\* what an argument may be: the options, an unknown option that is also the
\* name of a file, the files, a path that does not exist ("m")
ArgTokens ==
    { OPT_NO_DEFAULT_OS, OPT_VIRTUAL_TRAP_VECTOR_TABLE, OPT_END,
      <<45, 120>>, <<104>>, <<114>>, <<100>>, <<109>> }

ArgLists == UNION { [1 .. n -> ArgTokens] : n \in 0 .. MaxArgs }

\* c_lflag of the terminal when the program starts
TerminalFlags == { {"ICANON", "ECHO", "ISIG"} }

\* the process is started with these arguments on this terminal
CliStart(args, lflag) ==
    /\ cli.phase = "none"
    /\ runState = "idle"
    /\ nsteps = 0
    /\ nhost = 0
    /\ call.n = 0
    /\ cli' = [cli EXCEPT !.phase = "main", !.args = args, !.lflag = lflag]
    /\ UNCHANGED <<registers, pc, cc, words, io, runState, runVirt, runAddr, nsteps, nhost,
                   last, dec, call>>

\* a return from main that leaves the terminal as the adapter has set it
exit_with_no_drop(c, code) ==
    [c EXCEPT !.phase = "exit", !.exit = code, !.termios = FALSE]

\* main returns ExitCode: the locals of run have been dropped by then, and
\* Drop for Termios has called tcsetattr with prev_ios, ignoring its result
exit_with(c, code) ==
    [c EXCEPT !.phase = "exit", !.exit = code, !.termios = FALSE,
              !.lflag = IF c.termios /\ ~c.tcfail THEN c.prev_ios ELSE @]

\* a main that answers every error of run with ExitCode::FAILURE
main_err_failure(c, kind) ==
    exit_with([c EXCEPT !.error = kind, !.stderr = Append(@, "error")], 1)

\* main, after run has returned Err(err): the message and the exit code
main_err(c, kind) ==
    LET c1 == [c EXCEPT !.error = kind, !.stderr = Append(@, "error")] IN
    CASE kind = "Io" -> exit_with(c1, 2)
      [] kind = "Lc3" -> exit_with(c1, 1)
      [] kind = "UnrecognizedOption" ->
           exit_with([c1 EXCEPT !.stderr = Append(@, "Usage")], 2)

\* main up to the call of run
CliMain ==
    /\ cli.phase = "main"
    /\ cli' = IF Len(cli.args) + 1 <= 1
              THEN exit_with([cli EXCEPT !.stderr = <<"LICENSE", "Usage">>], 2)
              ELSE [cli EXCEPT !.phase = "scan", !.i = 1]
    /\ UNCHANGED <<registers, pc, cc, words, io, runState, runVirt, runAddr, nsteps, nhost,
                   last, dec, call>>

\* run, one iteration of the loop over the arguments
CliScan ==
    /\ cli.phase = "scan"
    /\ cli.i <= Len(cli.args)
    /\ LET arg == cli.args[cli.i]
           c == [cli EXCEPT !.i = @ + 1]
       IN cli' = IF cli.stop_options_processing
                 THEN [c EXCEPT !.files = Append(@, arg)]
                 ELSE IF arg = OPT_NO_DEFAULT_OS
                 THEN [c EXCEPT !.default_os = FALSE]
                 ELSE IF arg = OPT_VIRTUAL_TRAP_VECTOR_TABLE
                 THEN [c EXCEPT !.virtual_trap_vector_table = TRUE]
                 ELSE IF arg = OPT_END
                 THEN [c EXCEPT !.stop_options_processing = TRUE]
                 ELSE IF starts_with_dash(arg)
                 THEN main_err(c, "UnrecognizedOption")
                 ELSE [c EXCEPT !.files = Append(@, arg)]
    /\ UNCHANGED <<registers, pc, cc, words, io, runState, runVirt, runAddr, nsteps, nhost,
                   last, dec, call>>

\* Termios::new()?: tcgetattr, then tcsetattr with ICANON and ECHO cleared;
\* either may fail, and then the attributes are as they were
CliTermios(ok) ==
    /\ cli.phase = "scan"
    /\ cli.i > Len(cli.args)
    /\ cli' = IF ok
              THEN [cli EXCEPT !.phase = "os", !.prev_ios = cli.lflag,
                               !.lflag = @ \ {"ICANON", "ECHO"}, !.termios = TRUE]
              ELSE main_err(cli, "Io")
    /\ UNCHANGED <<registers, pc, cc, words, io, runState, runVirt, runAddr, nsteps, nhost,
                   last, dec, call>>

\* the terminal goes away under the adapter: tcsetattr fails from now on
TerminalFail ==
    /\ cli.phase = "files"
    /\ cli.termios
    /\ ~cli.tcfail
    /\ cli' = [cli EXCEPT !.tcfail = TRUE]
    /\ UNCHANGED <<registers, pc, cc, words, io, runState, runVirt, runAddr, nsteps, nhost,
                   last, dec, call>>

\* if default_os { lc3.load_image(&mut lc3os_img.as_slice())? }
CliLoadOs ==
    /\ cli.phase = "os"
    /\ words' = IF cli.default_os THEN load_image_into(words, lc3os_img) ELSE words
    /\ cli' = [cli EXCEPT !.phase = "files", !.fi = 1,
                          !.loads = IF cli.default_os THEN Append(@, lc3os_img) ELSE @]
    /\ UNCHANGED <<registers, pc, cc, io, runState, runVirt, runAddr, nsteps, nhost,
                   last, dec, call>>

\* files.into_iter().try_for_each(..)?, one file
CliLoadFile ==
    /\ cli.phase = "files"
    /\ cli.fi <= Len(cli.files)
    /\ LET f == open(cli.files[cli.fi]) IN
       IF f.found /\ f.readable
       THEN /\ words' = load_image_into(words, f.bytes)
            /\ cli' = [cli EXCEPT !.fi = @ + 1, !.loads = Append(@, f.bytes)]
       ELSE /\ words' = words
            /\ cli' = main_err(cli, "Io")
    /\ UNCHANGED <<registers, pc, cc, io, runState, runVirt, runAddr, nsteps, nhost,
                   last, dec, call>>

\* lc3.run() or lc3.run_with_virtual_trap_vector_table(), entry
CliRun ==
    /\ cli.phase = "files"
    /\ cli.fi > Len(cli.files)
    /\ SetVM([reset(VM) EXCEPT !.pc = USER_PROGRAMS_START])
    /\ runState' = "running"
    /\ runVirt' = cli.virtual_trap_vector_table
    /\ runAddr' = USER_PROGRAMS_START
    /\ last' = NoStep
    /\ cli' = [cli EXCEPT !.phase = "run"]
    /\ UNCHANGED <<nsteps, nhost, dec, call>>

\* the run has returned: Ok(()) => ExitCode::SUCCESS, Err => main's match
CliExit ==
    /\ cli.phase = "run"
    /\ runState \in {"ok", "err"}
    /\ cli' = IF runState = "ok" THEN exit_with(cli, 0) ELSE main_err(cli, "Lc3")
    /\ UNCHANGED <<registers, pc, cc, words, io, runState, runVirt, runAddr, nsteps, nhost,
                   last, dec, call>>

NextCli ==
    \/ \E args \in ArgLists, lflag \in TerminalFlags : CliStart(args, lflag)
    \/ CliMain
    \/ CliScan
    \/ \E ok \in BOOLEAN : CliTermios(ok)
    \/ CliLoadOs
    \/ CliLoadFile
    \/ DeviceFail /\ cli.phase = "files"
    \/ TerminalFail
    \/ CliRun
    \/ RunStep
    \/ RunReturn
    \/ CliExit

SpecCli == Init /\ [][NextCli]_vars

(***************************************************************************)
(* Vocabulary of the properties.  These operators state what the           *)
(* architecture prescribes, in arithmetic, without the decoder's or the    *)
(* engine's operators, so that a property compares the two.                *)
(***************************************************************************)
\* bits [hi:lo] of word w
Field(w, hi, lo) == (w \div Pow2(lo)) % Pow2(hi - lo + 1)

\* bit b of word w is set
HasBit(w, b) == Field(w, b, b) = 1

\* two's-complement sign extension to 16 bits of the low k bits of w
SignExt(w, k) ==
    IF HasBit(w, k - 1) THEN (w % Pow2(k)) + WORD - Pow2(k) ELSE w % Pow2(k)

\* the condition flag of a word read as a signed number
Signum(v) == IF v = 0 THEN CC_Z ELSE IF v >= WORD \div 2 THEN CC_N ELSE CC_P

\* the positions of the bits set in a word
Bits(w) == {i \in 0..15 : HasBit(w, i)}

\* the last step: address after the fetch, the fields of the instruction
P1 == (last.p + 1) % WORD
DR == Field(last.inst, 11, 9)
SR1 == Field(last.inst, 8, 6)
SR2 == Field(last.inst, 2, 0)
Offset9 == (P1 + SignExt(last.inst, 9)) % WORD
Offset11 == (P1 + SignExt(last.inst, 11)) % WORD
BaseOffset6 == (last.pre.registers[SR1] + SignExt(last.inst, 6)) % WORD

\* the data registers other than r are as they were before the step
OtherRegsKept(r) == \A x \in Regs \ {r} : registers[x] = last.pre.registers[x]

\* every memory word is as it was before the step
MemoryKept == \A a \in DOMAIN words \cup DOMAIN last.pre.words :
                 WordAt(words, a) = WordAt(last.pre.words, a)

\* memory.read(a) as the instruction of the last step makes it: on the memory
\* and the device the fetch has left
ReadAt(a) == mem_read(last.pre.words, fetch(last.pre).io, a)

\* MCR bit 15 is clear
ClockStopped == ~HasBit(WordAt(words, MCR), 15)

(***************************************************************************)
(* C1.  A run first writes x8000 to MCR and sets PC to the start address;  *)
(* it executes an instruction only while MCR bit 15 is set; it returns Ok  *)
(* only in a state where MCR bit 15 is clear; and once an instruction has  *)
(* left bit 15 clear the run fetches and executes nothing more: its only   *)
(* step is to return Ok.                                                   *)
(***************************************************************************)
C1_RunLoopStep ==
    /\ (runState # "running" /\ runState' = "running")
          => /\ WordAt(words', MCR) = 32768
             /\ pc' = runAddr'
             /\ nsteps' = nsteps
    /\ (runState = "running" /\ nsteps' # nsteps) => ~ClockStopped
    /\ (runState = "running" /\ ClockStopped)
          => /\ runState' = "ok"
             /\ nsteps' = nsteps
             /\ VM' = VM
    /\ (runState' = "ok" /\ runState # "ok") => ClockStopped'

C1_RunLoop == [][C1_RunLoopStep]_vars

\* a run has executed an instruction that stopped the clock and has returned
C1_Witness ==
    /\ runState = "ok"
    /\ last.inrun
    /\ ClockStopped
    /\ HasBit(WordAt(last.pre.words, MCR), 15)

(***************************************************************************)
(* C2.  A step that fetches at p sets PC to p+1 (mod 2^16) before the      *)
(* instruction's effects: a taken BR, LD, LDI, LEA, ST, STI and JSR with   *)
(* bit 11 compute their address from p+1, and an instruction that does     *)
(* not write PC leaves PC = p+1, p = xFFFF giving 0.                       *)
(***************************************************************************)
C2_PcIncrement ==
    /\ last.op \in {"Add", "And", "Not", "Ld", "Ldi", "Ldr", "Lea", "St", "Sti",
                    "Str", "Rti", "Res"} => pc = P1
    /\ (last.op = "Trap" /\ last.virt) => pc = P1
    /\ (last.op # "None" /\ last.p = LAST_ADDRESS /\ last.op \notin {"Br", "Jmp", "Jsr"}
          /\ ~(last.op = "Trap" /\ ~last.virt)) => pc = 0
    /\ last.op = "Br" => pc \in {P1, Offset9}
    /\ (last.op = "Jsr" /\ HasBit(last.inst, 11)) => pc = Offset11 /\ registers[7] = P1
    /\ last.op = "Ld" => registers[DR] = ReadAt(Offset9).val
    /\ last.op = "Ldi" =>
          registers[DR] = mem_read(last.pre.words, ReadAt(Offset9).io,
                                   ReadAt(Offset9).val).val
    /\ last.op = "Lea" => registers[DR] = Offset9
    /\ last.op = "St" =>
          words = mem_write(last.pre.words, fetch(last.pre).io, Offset9,
                            last.pre.registers[DR]).words
    /\ last.op = "Sti" =>
          words = mem_write(last.pre.words, ReadAt(Offset9).io,
                            ReadAt(Offset9).val, last.pre.registers[DR]).words

\* a taken branch fetched at xFFFF lands at 0 + 2, and a load fetched at
\* xFFFF reads the word at 0 - 1
C2_Witness ==
    /\ last.p = LAST_ADDRESS
    /\ \/ last.op = "Br" /\ pc = 2
       \/ last.op = "Ld" /\ pc = 0 /\ registers[2] = WordAt(last.pre.words, LAST_ADDRESS)

(***************************************************************************)
(* C3 as the specification words it.  After every instruction that writes  *)
(* a data register (any of R0..R7: the destination of ADD, AND, NOT, LD,   *)
(* LDI, LDR, LEA, the R7 of JSR, JSRR and TRAP, the R0 of GETC and IN),    *)
(* CC is exactly one of N, Z, P and is the signum of the register written. *)
(***************************************************************************)
C3_Written ==
    CASE last.op \in {"Add", "And", "Not", "Ld", "Ldi", "Ldr", "Lea"} -> {DR}
      [] last.op = "Jsr" -> {7}
      [] last.op = "Trap" /\ ~last.virt -> {7}
      [] last.op = "Trap" /\ last.virt /\ Field(last.inst, 7, 0) \in {32, 35} -> {0, 7}
      [] last.op = "Trap" /\ last.virt /\ Field(last.inst, 7, 0) \notin {32, 35} -> {7}
      [] OTHER -> {}

C3_EveryRegisterWrite ==
    last.result = "Ok" =>
        \A r \in C3_Written : cc \in {CC_N, CC_Z, CC_P} /\ cc = Signum(registers[r])

(***************************************************************************)
(* C3, amended.  After every ADD, AND, NOT, LD, LDI, LDR, LEA (in either   *)
(* trap mode) and every emulated GETC that completes, CC is exactly one    *)
(* of N, Z, P and is the signum of the destination register (R0 for        *)
(* GETC).  The instructions that write R7 as a link (JSR, JSRR, TRAP) and  *)
(* the emulated IN, which writes R0, leave CC as it was.                   *)
(***************************************************************************)
C3_SetCC ==
    /\ (last.op \in {"Add", "And", "Not", "Ld", "Ldi", "Ldr", "Lea"} /\ last.result = "Ok")
          => cc \in {CC_N, CC_Z, CC_P} /\ cc = Signum(registers[DR])
    /\ (last.op = "Trap" /\ last.virt /\ Field(last.inst, 7, 0) = 32 /\ last.result = "Ok")
          => cc \in {CC_N, CC_Z, CC_P} /\ cc = Signum(registers[0])
    /\ (last.result = "Ok" /\ last.op = "Jsr") => cc = last.pre.cc
    /\ (last.result = "Ok" /\ last.op = "Trap" /\ ~last.virt) => cc = last.pre.cc
    /\ (last.result = "Ok" /\ last.op = "Trap" /\ last.virt /\ Field(last.inst, 7, 0) # 32)
          => cc = last.pre.cc

\* a load of a negative word in a run with emulated traps sets N over an
\* earlier P
C3_Witness ==
    /\ last.op = "Ld"
    /\ last.inrun
    /\ runVirt
    /\ registers[DR] >= 32768
    /\ cc = CC_N
    /\ last.pre.cc = CC_P

(***************************************************************************)
(* C4.  ADD writes SR1 + (bit 5 ? sext(imm5) : SR2) mod 2^16 to DR, AND    *)
(* the bitwise AND of the same operands, NOT the complement of SR1; each   *)
(* then sets CC to the signum of DR and changes no other register and no   *)
(* memory word.  ADD R0,R0,#1 with R0 = xFFFF gives R0 = 0 and CC = Z.     *)
(***************************************************************************)
C4_Operand2 ==
    IF HasBit(last.inst, 5) THEN SignExt(last.inst, 5) ELSE last.pre.registers[SR2]

C4_AddAndNot ==
    /\ last.op = "Add" =>
          registers[DR] = (last.pre.registers[SR1] + C4_Operand2) % WORD
    /\ last.op = "And" =>
          Bits(registers[DR]) = Bits(last.pre.registers[SR1]) \cap Bits(C4_Operand2)
    /\ last.op = "Not" =>
          Bits(registers[DR]) = (0..15) \ Bits(last.pre.registers[SR1])
    /\ last.op \in {"Add", "And", "Not"} =>
          /\ registers[DR] \in Word
          /\ cc = Signum(registers[DR])
          /\ OtherRegsKept(DR)
          /\ MemoryKept
          /\ (last.inst = 4129 /\ last.pre.registers[0] = LAST_ADDRESS)
                => registers[0] = 0 /\ cc = CC_Z

\* ADD R0,R0,#1 has run with R0 = xFFFF
C4_Witness ==
    /\ last.op = "Add"
    /\ last.inst = 4129
    /\ last.pre.registers[0] = 65535
    /\ registers[0] = 0
    /\ cc = CC_Z

(***************************************************************************)
(* C5.  For every 16-bit word w and every k in {5, 6, 8, 9, 11}, imm_k(w)  *)
(* is the two's-complement sign extension to 16 bits of bits [k-1:0] of    *)
(* w: the low k bits as they are when bit k-1 is 0, those bits with all    *)
(* the higher bits set when it is 1; the result does not depend on the     *)
(* bits of w above the field.                                              *)
(***************************************************************************)
C5_Imm(k) ==
    CASE k = 5 -> dec.imm5
      [] k = 6 -> dec.imm6
      [] k = 8 -> dec.imm8
      [] k = 9 -> dec.imm9
      [] k = 11 -> dec.imm11

C5_ImmOfField(k) ==
    CASE k = 5 -> imm5(dec.inst % Pow2(k))
      [] k = 6 -> imm6(dec.inst % Pow2(k))
      [] k = 8 -> imm8(dec.inst % Pow2(k))
      [] k = 9 -> imm9(dec.inst % Pow2(k))
      [] k = 11 -> imm11(dec.inst % Pow2(k))

C5_SignExtension ==
    dec.done =>
        \A k \in {5, 6, 8, 9, 11} :
            /\ C5_Imm(k) = SignExt(dec.inst, k)
            /\ C5_Imm(k) = C5_ImmOfField(k)
            /\ C5_Imm(k) \in Word
            /\ Bits(C5_Imm(k)) \cap (0 .. (k - 1)) = Bits(dec.inst) \cap (0 .. (k - 1))
            /\ \A i \in k .. 15 : HasBit(C5_Imm(k), i) <=> HasBit(dec.inst, k - 1)

\* x1C5F decoded: bits 4 and 10 are set, bits 5, 7 and 8 are clear, so imm5
\* and imm11 are negative while imm6, imm8 and imm9 are not
C5_Witness ==
    /\ dec.done
    /\ dec.inst = 7263
    /\ dec.imm5 = 65535
    /\ dec.imm6 = 31
    /\ dec.imm8 = 95
    /\ dec.imm9 = 95
    /\ dec.imm11 = 64607

(***************************************************************************)
(* C6.  BR fetched at p with mask m sets PC to p+1+sext(imm9) (mod 2^16)   *)
(* iff m and the current CC share a flag, and leaves PC = p+1 otherwise;   *)
(* it changes no data register, not CC and no memory word; a BR with       *)
(* mask 0 is never taken.                                                  *)
(***************************************************************************)
C6_Taken == \E b \in 0..2 : HasBit(Field(last.inst, 11, 9), b) /\ HasBit(last.pre.cc, b)

C6_Branch ==
    last.op = "Br" =>
        /\ pc = IF C6_Taken THEN Offset9 ELSE P1
        /\ Field(last.inst, 11, 9) = 0 => pc = P1
        /\ registers = last.pre.registers
        /\ cc = last.pre.cc
        /\ MemoryKept

\* a BR whose mask has more flags than CC is taken backwards; the offset is
\* not zero, so that taken and not taken differ
C6_Witness ==
    /\ last.op = "Br"
    /\ Field(last.inst, 11, 9) = 7
    /\ last.pre.cc = CC_P
    /\ SignExt(last.inst, 9) > 32768
    /\ pc = Offset9
    /\ pc # P1

(***************************************************************************)
(* C7.  LD writes memory.read(PC'+sext(imm9)) to DR, LDR writes            *)
(* memory.read(BaseR+sext(imm6)), LDI writes memory.read(memory.read(      *)
(* PC'+sext(imm9))), LEA writes the address PC'+sext(imm9) itself without  *)
(* reading memory at it; addresses are mod 2^16 and PC' is the address     *)
(* after the fetch; each sets CC to the signum of DR and changes no other  *)
(* data register and no memory word.                                       *)
(***************************************************************************)
C7_Loads ==
    /\ last.op = "Ld" => registers[DR] = ReadAt(Offset9).val /\ io = ReadAt(Offset9).io
    /\ last.op = "Ldr" =>
          registers[DR] = ReadAt(BaseOffset6).val /\ io = ReadAt(BaseOffset6).io
    /\ last.op = "Ldi" =>
          LET second == mem_read(last.pre.words, ReadAt(Offset9).io, ReadAt(Offset9).val)
          IN registers[DR] = second.val /\ io = second.io
    /\ last.op = "Lea" => registers[DR] = Offset9 /\ io = fetch(last.pre).io
    /\ last.op \in {"Ld", "Ldr", "Ldi", "Lea"} =>
          /\ cc = Signum(registers[DR])
          /\ OtherRegsKept(DR)
          /\ MemoryKept
          /\ pc = P1

\* LDI has followed a pointer to an ordinary word that is not the pointer
\* itself, and LDR has read the keyboard data register at a negative offset
C7_Witness ==
    \/ /\ last.op = "Ldi"
       /\ ReadAt(Offset9).val \in DOMAIN last.pre.words
       /\ registers[DR] = 4660
       /\ ReadAt(Offset9).val # 4660
    \/ /\ last.op = "Ldr"
       /\ BaseOffset6 = KBDR
       /\ SignExt(last.inst, 6) >= 32768
       /\ registers[DR] = 81

(***************************************************************************)
(* C8.  ST stores SR at PC'+sext(imm9), STR at BaseR+sext(imm6), STI at    *)
(* the address memory.read(PC'+sext(imm9)); when the target is not one of  *)
(* the device registers KBSR, KBDR, DSR, DDR, exactly the word at the      *)
(* target changes, to SR; in every case no data register and not CC        *)
(* changes.                                                                *)
(***************************************************************************)
C8_Target ==
    CASE last.op = "St" -> Offset9
      [] last.op = "Str" -> BaseOffset6
      [] last.op = "Sti" -> ReadAt(Offset9).val

C8_Stores ==
    last.op \in {"St", "Str", "Sti"} =>
        /\ registers = last.pre.registers
        /\ cc = last.pre.cc
        /\ C8_Target \notin {65024, 65026, 65028, 65030} =>
              \A a \in DOMAIN words \cup DOMAIN last.pre.words \cup {C8_Target} :
                  WordAt(words, a) = IF a = C8_Target THEN last.pre.registers[DR]
                                     ELSE WordAt(last.pre.words, a)

\* STI has changed the word its pointer names, which is neither the pointer
\* nor the word after the instruction
C8_Witness ==
    /\ last.op = "Sti"
    /\ C8_Target \notin {Offset9, P1}
    /\ C8_Target < KBSR
    /\ WordAt(words, C8_Target) = last.pre.registers[DR]
    /\ WordAt(words, C8_Target) # WordAt(last.pre.words, C8_Target)

(***************************************************************************)
(* C9.  JSR with bit 11 set fetched at p sets R7 to p+1 and PC to          *)
(* p+1+sext(imm11) (mod 2^16); JMP BaseR sets PC to BaseR, so that JMP R7  *)
(* (RET) executed while R7 still holds p+1 sets PC to p+1; neither         *)
(* changes CC, a memory word or another data register.  JSR +2 at x3000    *)
(* gives R7 = x3001 and PC = x3003, and RET at x3003 gives PC = x3001.     *)
(***************************************************************************)
C9_JsrRet ==
    /\ (last.op = "Jsr" /\ HasBit(last.inst, 11)) =>
          /\ registers[7] = P1
          /\ pc = Offset11
          /\ OtherRegsKept(7)
          /\ cc = last.pre.cc
          /\ MemoryKept
          /\ (last.p = 12288 /\ last.inst = 18434) => registers[7] = 12289 /\ pc = 12291
    /\ last.op = "Jmp" =>
          /\ pc = last.pre.registers[SR1]
          /\ registers = last.pre.registers
          /\ cc = last.pre.cc
          /\ MemoryKept
          /\ (SR1 = 7 /\ last.p = 12291 /\ last.pre.registers[7] = 12289) => pc = 12289

\* the subroutine called by JSR +2 at x3000 has returned through RET at x3003
C9_Witness ==
    /\ last.op = "Jmp"
    /\ SR1 = 7
    /\ last.p = 12291
    /\ last.pre.registers[7] = 12289
    /\ pc = 12289
    /\ nsteps = 2

(***************************************************************************)
(* C10 as the specification words it.  A TRAP with vector v fetched at p   *)
(* in hardware trap mode sets R7 to p+1 and PC to the word at address v,   *)
(* an address in x0000..x00FF, for every v in 0..255, v >= x80 included;   *)
(* no other register, not CC and no memory word changes.                   *)
(***************************************************************************)
C10_TrapVector ==
    (last.op = "Trap" /\ ~last.virt /\ last.result = "Ok") =>
        /\ registers[7] = P1
        /\ pc = WordAt(last.pre.words, Field(last.inst, 7, 0))
        /\ OtherRegsKept(7)
        /\ cc = last.pre.cc
        /\ MemoryKept

(***************************************************************************)
(* C11.  An instruction whose opcode is RTI (8) or RES (13), in either     *)
(* trap mode, returns the error OpCodeNotImplemented; a run in progress    *)
(* returns that error and executes nothing more; the failed step leaves    *)
(* every data register, CC and every memory word (MCR included) as they    *)
(* were and only advances PC by one.                                       *)
(***************************************************************************)
C11_Unimplemented ==
    (last.op # "None" /\ Field(last.inst, 15, 12) \in {8, 13}) =>
        /\ last.result = "OpCodeNotImplemented"
        /\ registers = last.pre.registers
        /\ cc = last.pre.cc
        /\ MemoryKept
        /\ WordAt(words, MCR) = WordAt(last.pre.words, MCR)
        /\ pc = P1
        /\ last.inrun => runState = "err"

\* a run with emulated traps has met RES with the clock still enabled, and
\* has returned the error
C11_Witness ==
    /\ last.inrun
    /\ runVirt
    /\ Field(last.inst, 15, 12) = 13
    /\ last.result = "OpCodeNotImplemented"
    /\ runState = "err"
    /\ ~ClockStopped

(***************************************************************************)
(* Vocabulary of the properties about direct calls.                        *)
(***************************************************************************)
\* the device registers the memory unit answers for itself
DeviceRegisters == {65024, 65026, 65028, 65030}

\* a call has just been made, of this kind
JustCalled(kind) == call'.n = call.n + 1 /\ call'.kind = kind

\* the call has changed nothing of the machine
CallChangedNothing ==
    /\ words = call.pre.words
    /\ io = call.pre.io
    /\ registers = call.pre.registers
    /\ pc = call.pre.pc
    /\ cc = call.pre.cc

(***************************************************************************)
(* C12.  should_halt() returns true exactly when bit 15 of the word        *)
(* stored at MCR is zero, whatever the other 15 bits; after reset() it     *)
(* returns false and after halt() it returns true; should_halt() changes   *)
(* no memory word, register or device state.                               *)
(***************************************************************************)
C12_ClockStep ==
    /\ JustCalled("should_halt") =>
          /\ call'.ret = (WordAt(words, MCR) < 32768)
          /\ call'.ret \in BOOLEAN
          /\ VM' = VM
    /\ (call.kind = "reset" /\ JustCalled("should_halt")) => call'.ret = FALSE
    /\ (call.kind = "halt" /\ JustCalled("should_halt")) => call'.ret = TRUE

C12_Clock == [][C12_ClockStep]_vars

\* should_halt has answered true on an MCR with bit 15 clear and the other
\* bits set, and false on one with bit 15 and other bits set
C12_Witness ==
    /\ call.kind = "should_halt"
    /\ \/ call.ret = TRUE /\ WordAt(words, MCR) = 32767
       \/ call.ret = FALSE /\ WordAt(words, MCR) = 65345

(***************************************************************************)
(* C13.  For every address a outside {xFE00, xFE02, xFE04, xFE06}, MCR     *)
(* included, and every word v, Memory::write(a, v) followed by             *)
(* Memory::read(a) returns v; the write changes no other memory word and   *)
(* causes no device operation; the read changes nothing.                   *)
(***************************************************************************)
C13_WriteReadStep ==
    /\ (JustCalled("write") /\ call'.addr \notin DeviceRegisters) =>
          /\ WordAt(words', call'.addr) = call'.value
          /\ \A x \in (DOMAIN words \cup DOMAIN words') \ {call'.addr} :
                WordAt(words', x) = WordAt(words, x)
          /\ io' = io
    /\ (/\ call.kind = "write"
        /\ call.addr \notin DeviceRegisters
        /\ JustCalled("read")
        /\ call'.addr = call.addr) =>
          /\ call'.ret = call.value
          /\ VM' = VM

C13_WriteRead == [][C13_WriteReadStep]_vars

\* a word written to MCR and a word written to xFE01, between two device
\* registers, have been read back
C13_Witness ==
    /\ call.kind = "read"
    /\ call.n >= 2
    /\ \/ call.addr = MCR /\ call.ret = 65345
       \/ call.addr = KBSR + 1 /\ call.ret = 321
    /\ WordAt(words, call.addr) = call.ret

(***************************************************************************)
(* C14.  Memory::write to KBSR, KBDR or DSR changes no memory word and     *)
(* performs no device operation; Memory::write(xFE06, v) to DDR changes    *)
(* no memory word, writes exactly the one byte v mod 256 to the output     *)
(* device and then flushes it (seen on a device that accepts the write).   *)
(***************************************************************************)
C14_DeviceRegisterWrites ==
    /\ (call.kind = "write" /\ call.addr \in {65024, 65026, 65028}) =>
          CallChangedNothing
    /\ (call.kind = "write" /\ call.addr = 65030) =>
          /\ words = call.pre.words
          /\ io.inq = call.pre.io.inq
          /\ ~call.pre.io.fail =>
                io.log = call.pre.io.log
                           \o << <<"write", <<call.value % 256>> >>, <<"flush", << >> >> >>

\* x0141 has been written to DDR over an image that stores a word there:
\* the byte x41 went out, was flushed, and the stored word is as loaded
C14_Witness ==
    /\ call.kind = "write"
    /\ call.addr = DDR
    /\ call.value = 321
    /\ Len(io.log) >= 2
    /\ io.log[Len(io.log) - 1] = <<"write", <<65>> >>
    /\ io.log[Len(io.log)] = <<"flush", << >> >>
    /\ WordAt(words, DDR) = 30583

(***************************************************************************)
(* C15.  Memory::read(xFE00) returns x8000 if the device's poll() reports  *)
(* input ready and 0 otherwise, read(xFE04) always returns x8000 and       *)
(* read(xFE06) always returns 0; none of the three consumes input or       *)
(* changes a memory word, and the results do not depend on the words       *)
(* stored at those addresses in the array.                                 *)
(***************************************************************************)
C15_StatusReads ==
    /\ (call.kind = "read" /\ call.addr = 65024) =>
          call.ret = IF Len(call.pre.io.inq) > 0 THEN 32768 ELSE 0
    /\ (call.kind = "read" /\ call.addr = 65028) => call.ret = 32768
    /\ (call.kind = "read" /\ call.addr = 65030) => call.ret = 0
    /\ (call.kind = "read" /\ call.addr \in {65024, 65028, 65030}) => CallChangedNothing

\* the three registers read over an image that stores other words there:
\* KBSR with and without a key waiting, DSR, DDR
C15_Witness ==
    /\ call.kind = "read"
    /\ WordAt(words, call.addr) \in {4369, 21845, 30583}
    /\ \/ call.addr = KBSR /\ io.inq = << >> /\ call.ret = 0
       \/ call.addr = KBSR /\ io.inq = <<81>> /\ call.ret = 32768
       \/ call.addr = DSR /\ call.ret = 32768
       \/ call.addr = DDR /\ call.ret = 0

(***************************************************************************)
(* C16.  For every input queue, Memory::read(xFE02) removes exactly the    *)
(* head byte when input is ready and returns it zero-extended to 16 bits,  *)
(* and returns 0 and leaves the queue as it is when no input is ready; so  *)
(* with exactly one byte b queued, read KBSR, read KBDR, read KBSR return  *)
(* x8000, b, 0.  (The device's read succeeds.)                             *)
(***************************************************************************)
C16_KeyboardStep ==
    /\ (JustCalled("read") /\ call'.addr = 65026 /\ Len(io.inq) > 0 /\ ~io.fail) =>
          /\ call'.ret = io.inq[1]
          /\ call'.ret < 256
          /\ io'.inq = SubSeq(io.inq, 2, Len(io.inq))
          /\ words' = words
          /\ registers' = registers
    /\ (JustCalled("read") /\ call'.addr = 65026 /\ Len(io.inq) = 0) =>
          /\ call'.ret = 0
          /\ VM' = VM
    /\ (/\ call.kind = "read" /\ call.addr = 65024
        /\ Len(io.inq) = 1 /\ ~io.fail
        /\ JustCalled("read") /\ call'.addr = 65026) =>
          /\ call.ret = 32768
          /\ call'.ret = io.inq[1]
          /\ io'.inq = << >>
    /\ (/\ call.kind = "read" /\ call.addr = 65026
        /\ Len(call.pre.io.inq) = 1 /\ ~io.fail
        /\ JustCalled("read") /\ call'.addr = 65024) =>
          /\ call.ret = call.pre.io.inq[1]
          /\ call'.ret = 0

C16_Keyboard == [][C16_KeyboardStep]_vars

\* three calls have been made on a machine with one key, x51, pressed: the
\* device has been read once, for that byte, and KBSR now reads 0; and
\* of two keys x51, xC8 the first has been taken and the second is left
C16_Witness ==
    \/ /\ call.n = 3
       /\ call.kind = "read" /\ call.addr = KBSR /\ call.ret = 0
       /\ io.inq = << >>
       /\ io.log = << <<"read", <<81>> >> >>
    \/ /\ call.kind = "read" /\ call.addr = KBDR /\ call.ret = 81
       /\ call.pre.io.inq = <<81, 200>>
       /\ io.inq = <<200>>

(***************************************************************************)
(* C17 as the specification words it.  Whenever a device operation made    *)
(* while an instruction executes fails, inside an emulated trap or in an   *)
(* access to KBDR or DDR made by a load, a store or the fetch, the step    *)
(* returns Error::Io and a run in progress ends with it.                   *)
(***************************************************************************)
\* the addresses the last instruction has read through the memory unit,
\* the fetch included
C17_Reads ==
    {last.p} \cup
    CASE last.op = "Ld" -> {Offset9}
      [] last.op = "Ldr" -> {BaseOffset6}
      [] last.op \in {"Ldi", "Sti"} -> {Offset9}
      [] OTHER -> {}

\* the address the last instruction has read or written last
C17_Final ==
    CASE last.op \in {"Ldi", "Sti"} -> ReadAt(Offset9).val
      [] last.op = "St" -> Offset9
      [] last.op = "Str" -> BaseOffset6
      [] OTHER -> 0

\* the last instruction has called the device
C17_DeviceCalled ==
    \/ last.op = "Trap" /\ last.virt
    \/ Len(last.pre.io.inq) > 0 /\ 65026 \in C17_Reads
    \/ Len(last.pre.io.inq) > 0 /\ last.op = "Ldi" /\ C17_Final = 65026
    \/ last.op \in {"St", "Str", "Sti"} /\ C17_Final = 65030

C17_DeviceErrorsSurface ==
    (/\ last.op # "None"
     /\ last.pre.io.fail
     /\ C17_DeviceCalled
     /\ last.result \notin {"Panic", "Fault"}) =>
        /\ last.result = "Io"
        /\ last.inrun => runState = "err"

(***************************************************************************)
(* Vocabulary of the properties about emulated traps.                      *)
(***************************************************************************)
\* the last step is the emulated trap with this vector and has returned Ok
EmulatedTrapDone(v) ==
    last.op = "Trap" /\ last.virt /\ Field(last.inst, 7, 0) = v /\ last.result = "Ok"

\* what the device has been asked to do during the last step
StepLog == SubSeq(io.log, Len(last.pre.io.log) + 1, Len(io.log))

(***************************************************************************)
(* C18.  With emulated traps, TRAP x25 (HALT) fetched at p writes exactly  *)
(* the bytes "HALT\n" to the output and writes 0 to MCR, leaving R7 = PC   *)
(* = p+1; the run it is part of then returns Ok without fetching the       *)
(* instruction at p+1.                                                     *)
(***************************************************************************)
C18_HaltEffect ==
    EmulatedTrapDone(37) =>
        /\ Len(io.log) >= Len(last.pre.io.log)
        /\ SubSeq(io.log, 1, Len(last.pre.io.log)) = last.pre.io.log
        /\ StepLog = << <<"write", <<72, 65, 76, 84, 10>> >> >>
        /\ io.inq = last.pre.io.inq
        /\ WordAt(words, MCR) = 0
        /\ \A a \in (DOMAIN words \cup DOMAIN last.pre.words) \ {MCR} :
              WordAt(words, a) = WordAt(last.pre.words, a)
        /\ registers[7] = P1
        /\ pc = P1
        /\ OtherRegsKept(7)
        /\ last.inrun => runState \in {"running", "ok"}

C18_HaltStep ==
    (runState = "running" /\ last.inrun /\ EmulatedTrapDone(37)) =>
        /\ runState' = "ok"
        /\ nsteps' = nsteps
        /\ last' = last
        /\ VM' = VM

C18_Halt == [](C18_HaltEffect) /\ [][C18_HaltStep]_vars

\* a run has executed ADD and the HALT trap at x3005 and has returned Ok
\* with PC = R7 = x3006
C18_Witness ==
    /\ runState = "ok"
    /\ last.inrun
    /\ runVirt
    /\ EmulatedTrapDone(37)
    /\ nsteps = 2
    /\ pc = last.p + 1
    /\ registers[7] = pc
    /\ io.log = << <<"write", <<72, 65, 76, 84, 10>> >> >>

(***************************************************************************)
(* C19.  With emulated traps, TRAP x20 (GETC) consumes exactly one byte b  *)
(* of the input, sets R0 to b with the high byte zero and CC to the        *)
(* signum of R0 (Z or P, never N), writes nothing to the output and        *)
(* changes no data register other than R0 and R7.  (A byte is waiting.)    *)
(***************************************************************************)
C19_Getc ==
    (EmulatedTrapDone(32) /\ Len(last.pre.io.inq) > 0) =>
        /\ io.inq = SubSeq(last.pre.io.inq, 2, Len(last.pre.io.inq))
        /\ registers[0] = last.pre.io.inq[1]
        /\ registers[0] < 256
        /\ cc = Signum(registers[0])
        /\ cc \in {CC_Z, CC_P}
        /\ \A i \in 1..Len(StepLog) : StepLog[i][1] \notin {"write", "flush"}
        /\ SubSeq(io.log, 1, Len(last.pre.io.log)) = last.pre.io.log
        /\ \A r \in Regs \ {0, 7} : registers[r] = last.pre.registers[r]
        /\ registers[7] = P1
        /\ MemoryKept

\* GETC has taken the key x51 into R0 and has set P over another CC
C19_Witness ==
    /\ EmulatedTrapDone(32)
    /\ last.pre.io.inq = <<81>>
    /\ io.inq = << >>
    /\ registers[0] = 81
    /\ cc = CC_P
    /\ last.pre.cc # CC_P

(***************************************************************************)
(* C20 as the specification words it.  With emulated traps, TRAP x22       *)
(* (PUTS) writes, for each word w at R0, R0+1, ... in order, the low byte  *)
(* of w, stopping at the first word equal to x0000 (a word such as x0100,  *)
(* whose low byte is zero, does not end the string), then flushes; with    *)
(* x0048, x0049, x0000 at R0 the output is exactly "HI".                   *)
(***************************************************************************)
RECURSIVE C20_String(_, _, _)
\* the low bytes of the words from address a up to the first x0000, n words
\* at most
C20_String(m, a, n) ==
    IF n = 0 \/ WordAt(m, a) = 0 THEN << >>
    ELSE <<WordAt(m, a) % 256>> \o C20_String(m, (a + 1) % WORD, n - 1)

RECURSIVE C20_Output(_)
\* the bytes written by a sequence of device operations
C20_Output(log) ==
    IF log = << >> THEN << >>
    ELSE (IF Head(log)[1] = "write" THEN Head(log)[2] ELSE << >>) \o C20_Output(Tail(log))

C20_Puts ==
    EmulatedTrapDone(34) =>
        /\ C20_Output(StepLog) = C20_String(last.pre.words, last.pre.registers[0], 16)
        /\ Len(StepLog) > 0
        /\ StepLog[Len(StepLog)] = <<"flush", << >> >>
        /\ (/\ WordAt(last.pre.words, last.pre.registers[0]) = 72
            /\ WordAt(last.pre.words, last.pre.registers[0] + 1) = 73
            /\ WordAt(last.pre.words, last.pre.registers[0] + 2) = 0)
              => C20_Output(StepLog) = <<72, 73>>

(***************************************************************************)
(* C21.  With emulated traps, TRAP x24 (PUTSP) writes the bytes low(M[R0]), *)
(* high(M[R0]), low(M[R0+1]), high(M[R0+1]), ... up to but not including   *)
(* the first NUL byte, then flushes; a word whose low byte is 0 ends the   *)
(* string even when its high byte is not 0, and nothing of that word is    *)
(* written.  (The array holds a NUL byte at or after M[R0].)               *)
(***************************************************************************)
RECURSIVE C21_Ends(_, _)
\* a NUL byte lies in the words from address a to the end of the array
C21_Ends(m, a) ==
    /\ a < WORD
    /\ \/ WordAt(m, a) % 256 = 0
       \/ WordAt(m, a) \div 256 = 0
       \/ C21_Ends(m, a + 1)

RECURSIVE C21_Packed(_, _)
\* the packed string at address a: low byte, high byte, word after word, up
\* to its first NUL byte
C21_Packed(m, a) ==
    IF a >= WORD \/ WordAt(m, a) % 256 = 0 THEN << >>
    ELSE IF WordAt(m, a) \div 256 = 0 THEN <<WordAt(m, a) % 256>>
    ELSE <<WordAt(m, a) % 256, WordAt(m, a) \div 256>> \o C21_Packed(m, a + 1)

C22_Prompt ==
    <<69, 110, 116, 101, 114, 32, 97, 32, 99, 104, 97, 114, 97, 99, 116, 101, 114, 58, 32>>

C22_In ==
    (EmulatedTrapDone(35) /\ Len(last.pre.io.inq) > 0) =>
        LET b == last.pre.io.inq[1] IN
        /\ StepLog = << <<"write", C22_Prompt>>, <<"read", <<b>> >>,
                        <<"write", <<b>> >>, <<"flush", << >> >> >>
        /\ SubSeq(io.log, 1, Len(last.pre.io.log)) = last.pre.io.log
        /\ C20_Output(StepLog) = C22_Prompt \o <<b>>
        /\ io.inq = SubSeq(last.pre.io.inq, 2, Len(last.pre.io.inq))
        /\ registers[0] = b
        /\ registers[0] < 256

\* IN has prompted, taken the key x51, echoed it and left it in R0, which
\* held another value
C22_Witness ==
    /\ EmulatedTrapDone(35)
    /\ last.pre.io.inq = <<81>>
    /\ io.inq = << >>
    /\ registers[0] = 81
    /\ last.pre.registers[0] # 81
    /\ Len(StepLog) = 4
    /\ StepLog[3] = <<"write", <<81>> >>

(***************************************************************************)
(* C23.  With emulated traps, a TRAP fetched at p whose bits [7:0] are not *)
(* in x20 .. x25 writes exactly the bytes "UNDEFINED TRAP EXECUTED" to the *)
(* output, returns Ok and leaves R7 = PC = p+1 with R0 .. R6, CC and every *)
(* memory word (MCR included) unchanged; a run it is part of goes on with  *)
(* the instruction at p+1.  (The device accepts the write.)                *)
(***************************************************************************)
C23_UndefinedTrap ==
    /\ last.op = "Trap"
    /\ last.virt
    /\ Field(last.inst, 7, 0) \notin 32..37
    /\ ~last.pre.io.fail

C23_Effect ==
    C23_UndefinedTrap =>
        /\ last.result = "Ok"
        /\ StepLog = << <<"write", <<85, 78, 68, 69, 70, 73, 78, 69, 68, 32, 84, 82,
                                     65, 80, 32, 69, 88, 69, 67, 85, 84, 69, 68>> >> >>
        /\ SubSeq(io.log, 1, Len(last.pre.io.log)) = last.pre.io.log
        /\ io.inq = last.pre.io.inq
        /\ registers[7] = P1
        /\ pc = P1
        /\ OtherRegsKept(7)
        /\ cc = last.pre.cc
        /\ MemoryKept
        /\ WordAt(words, MCR) = WordAt(last.pre.words, MCR)
        /\ last.inrun => runState = "running"

C23_Step ==
    (runState = "running" /\ last.inrun /\ C23_UndefinedTrap) =>
        /\ runState' # "ok"
        /\ nsteps' = nsteps + 1
        /\ last'.inrun
        /\ last'.p = pc
        /\ last'.pre = VM

C23_Undefined == [](C23_Effect) /\ [][C23_Step]_vars

\* a run has executed TRAP xFF at x3045, which has written the message, and
\* is about to fetch at x3046 with the clock running
C23_Witness ==
    /\ runState = "running"
    /\ last.inrun
    /\ C23_UndefinedTrap
    /\ Field(last.inst, 7, 0) = 255
    /\ last.p = 12357
    /\ pc = 12358
    /\ registers[7] = 12358
    /\ Len(StepLog) = 1
    /\ HasBit(WordAt(words, MCR), 15)

(***************************************************************************)
(* C24.  CC changes only when ADD, AND, NOT, LD, LDI, LDR, LEA or the      *)
(* emulated TRAP x20 (GETC) executes: every BR, JMP, JSR, ST, STI, STR,    *)
(* TRAP through the vector table and emulated TRAP other than GETC leaves  *)
(* CC exactly as it was before the step.                                   *)
(***************************************************************************)
C24_WritesCC ==
    \/ last.op \in {"Add", "And", "Not", "Ld", "Ldi", "Ldr", "Lea"}
    \/ last.op = "Trap" /\ last.virt /\ Field(last.inst, 7, 0) = 32

C24_Frame ==
    /\ (last.op # "None" /\ ~C24_WritesCC) => cc = last.pre.cc
    /\ (/\ last.op \in {"Br", "Jmp", "Jsr", "St", "Sti", "Str", "Trap"}
        /\ ~(last.op = "Trap" /\ last.virt /\ Field(last.inst, 7, 0) = 32))
          => cc = last.pre.cc
    /\ (last.op # "None" /\ cc # last.pre.cc) => C24_WritesCC

\* the emulated IN has put the key x51 into R0 and has left CC as it was,
\* without P, although R0 is now positive
C24_Witness ==
    /\ last.op = "Trap"
    /\ last.virt
    /\ Field(last.inst, 7, 0) = 35
    /\ last.result = "Ok"
    /\ registers[0] = 81
    /\ last.pre.registers[0] # 81
    /\ cc = last.pre.cc
    /\ cc # CC_P

(***************************************************************************)
(* C25 as the specification words it.  In a freshly constructed machine    *)
(* (Lc3::new, nothing loaded, set, stepped or run yet) every data register *)
(* R0 .. R7 is zero, every memory word is zero and CC is Z.                *)
(***************************************************************************)
C25_Fresh ==
    /\ runState = "idle"
    /\ nsteps = 0
    /\ nhost = 0
    /\ call.n = 0
    /\ ~dec.done

C25_FreshVM ==
    C25_Fresh =>
        /\ \A r \in Regs : registers[r] = 0
        /\ \A a \in Word : WordAt(words, a) = 0
        /\ cc = CC_Z

(***************************************************************************)
(* Vocabulary of C26: the machine of the scenario before its one step.     *)
(***************************************************************************)
\* an empty machine but for M[x3000] = x3003, M[x3001] = xA000,
\* M[x3003] = x4000, M[x4000] = x1234 and PC = x3001, has made one step
C26_Stepped ==
    /\ last.op # "None"
    /\ last.p = 12289
    /\ \A r \in Regs : last.pre.registers[r] = 0
    /\ DOMAIN last.pre.words = {12288, 12289, 12291, 16384}
    /\ WordAt(last.pre.words, 12288) = 12291
    /\ WordAt(last.pre.words, 12289) = 40960
    /\ WordAt(last.pre.words, 12291) = 16384
    /\ WordAt(last.pre.words, 16384) = 4660

(***************************************************************************)
(* C26 as the specification words it.  From an empty machine with          *)
(* M[x3000] = x3003, M[x3001] = xA000, M[x3003] = x4000, M[x4000] = x1234  *)
(* and PC = x3001, one step leaves R2 = x1234 and CC = P.                  *)
(***************************************************************************)
C26_LdiScenario ==
    C26_Stepped => (registers[2] = 4660 /\ cc = CC_P)

(***************************************************************************)
(* C26, amended.  From that machine one step executes xA000, which is      *)
(* LDI R0, #0: it loads R0 with M[M[x3002]] = M[x0000] = 0 and sets CC to  *)
(* Z, leaving R2 = 0 and PC = x3002.                                       *)
(***************************************************************************)
C26_LdiR0 ==
    C26_Stepped =>
        /\ last.op = "Ldi"
        /\ last.result = "Ok"
        /\ DR = 0
        /\ Offset9 = 12290
        /\ registers[0] = 0
        /\ registers[2] = 0
        /\ cc = CC_Z
        /\ pc = 12290
        /\ OtherRegsKept(0)
        /\ MemoryKept

\* the step of the scenario has been made outside a run, from CC = NONE
C26_Witness ==
    /\ C26_Stepped
    /\ ~last.inrun
    /\ last.pre.cc = CC_NONE
    /\ nsteps = 1
    /\ last.inst = 40960
    /\ cc = CC_Z

(***************************************************************************)
(* Vocabulary of the properties about the loader.                          *)
(***************************************************************************)
\* the last call has loaded an image whose stream holds an origin
C27_Loaded == call.kind = "load" /\ Len(call.stream) >= 2

\* every read of the last load has delivered all the bytes asked for or left
C27_InFull == call.chunk >= 2 /\ call.chunk >= Len(call.stream) - 2

C27_Origin == call.stream[1] * 256 + call.stream[2]

\* the complete words of the payload
C27_Count == (Len(call.stream) - 2) \div 2

\* word k of the payload, big-endian
C27_Payload(k) == call.stream[2 * k + 3] * 256 + call.stream[2 * k + 4]

(***************************************************************************)
(* C27.  Loading a stream [hi, lo, hi1, lo1, hi2, lo2, ...] that the       *)
(* source delivers in full sets M[origin+k] = hi_(k+1)*256 + lo_(k+1) for  *)
(* every complete word k of the payload with origin+k <= xFFFF, where      *)
(* origin = hi*256 + lo; the words go straight into the array, past the    *)
(* device registers' overlay: the device is not touched.                   *)
(***************************************************************************)
C27_RoundTrip ==
    (C27_Loaded /\ C27_InFull) =>
        /\ \A k \in 0 .. (C27_Count - 1) :
              C27_Origin + k <= 65535
                 => WordAt(words, C27_Origin + k) = C27_Payload(k)
        /\ io = call.pre.io
        /\ registers = call.pre.registers
        /\ pc = call.pre.pc
        /\ cc = call.pre.cc

\* after two words at x3000, a word has been loaded at KBSR: both are in the
\* array and the device has not been asked anything
C27_Witness ==
    /\ C27_Loaded
    /\ C27_InFull
    /\ call.stream = <<254, 0, 67, 33>>
    /\ WordAt(words, 65024) = 17185
    /\ WordAt(words, 12288) = 4660
    /\ WordAt(words, 12289) = 43981
    /\ io.log = << >>

(***************************************************************************)
(* C28 as the specification words it.  The loader loads every word the     *)
(* stream yields up to the end of the file: also from a source whose reads *)
(* deliver fewer bytes than asked for, after load_image has returned Ok    *)
(* every complete word of the payload that fits below x10000 is stored at  *)
(* origin+k.                                                               *)
(***************************************************************************)
C28_ShortReads ==
    C27_Loaded =>
        \A k \in 0 .. (C27_Count - 1) :
            C27_Origin + k <= 65535
               => WordAt(words, C27_Origin + k) = C27_Payload(k)

(***************************************************************************)
(* Vocabulary of the properties about the command line.                    *)
(***************************************************************************)
\* the process has exited
CliExited == cli.phase = "exit"

\* argument k comes before the first "--"
CliBeforeEnd(k) == \A j \in 1 .. (k - 1) : cli.args[j] # <<45, 45>>

\* argument k is an option the program does not know
CliUnknownOption(k) ==
    /\ k \in 1 .. Len(cli.args)
    /\ CliBeforeEnd(k)
    /\ Len(cli.args[k]) > 0
    /\ cli.args[k][1] = 45
    /\ cli.args[k] \notin {OPT_NO_DEFAULT_OS, OPT_VIRTUAL_TRAP_VECTOR_TABLE, OPT_END}

CliHasUnknownOption == \E k \in 1 .. Len(cli.args) : CliUnknownOption(k)

(***************************************************************************)
(* C29.  The exit code of the command-line program is 2 when it is started *)
(* with no arguments, 2 when an unrecognized option is given, 2 when the   *)
(* terminal adapter cannot be created or an image cannot be opened or      *)
(* loaded (an I/O error), 1 when the engine's run returns an error (RTI or *)
(* RES executed, or a device error during the run) and 0 when the run      *)
(* returns after a clean halt.                                             *)
(***************************************************************************)
C29_ExitCode ==
    CliExited =>
        /\ cli.exit \in {0, 1, 2}
        /\ Len(cli.args) = 0 => cli.exit = 2
        /\ CliHasUnknownOption => cli.exit = 2
        /\ cli.error = "Io" => cli.exit = 2
        /\ runState = "idle" => cli.exit = 2
        /\ runState = "err" => cli.exit = 1
        /\ (runState = "err" /\ last.op \in {"Rti", "Res"}) => cli.exit = 1
        /\ (runState = "err" /\ last.result = "Io") => cli.exit = 1
        /\ runState = "ok" => (cli.exit = 0 /\ ClockStopped)
        /\ cli.exit = 0 => runState = "ok"
        /\ cli.exit = 1 => runState = "err"

\* started with the one argument "r", the program has loaded the operating
\* system and the file, has run into RTI at x3000 and has exited with 1
C29_Witness ==
    /\ CliExited
    /\ cli.args = << <<114>> >>
    /\ Len(cli.loads) = 2
    /\ last.op = "Rti"
    /\ last.p = 12288
    /\ runState = "err"
    /\ cli.exit = 1

(***************************************************************************)
(* Vocabulary of C30: what the arguments scanned so far amount to.         *)
(***************************************************************************)
\* arguments scanned
C30_Scanned == cli.i - 1

\* argument k is this option, in a place where options are processed
C30_Option(k, opt) == cli.args[k] = opt /\ CliBeforeEnd(k)

RECURSIVE C30_Paths(_)
\* the image paths among the first k arguments: those after the first "--",
\* whatever they look like, and those before it that do not start with '-'
C30_Paths(k) ==
    IF k = 0 THEN << >>
    ELSE IF ~CliBeforeEnd(k) \/ Len(cli.args[k]) = 0 \/ cli.args[k][1] # 45
    THEN Append(C30_Paths(k - 1), cli.args[k])
    ELSE C30_Paths(k - 1)

(***************************************************************************)
(* C30.  The arguments are scanned from left to right: --no-default-os and *)
(* --virtual-trap-vector-table set their flags, the first -- ends the      *)
(* processing of options, so that every later argument is an image path    *)
(* even if it starts with '-' (a later --no-default-os or -- included),    *)
(* and any other argument that starts with '-' and comes before -- is an   *)
(* unrecognized option: the program exits with 2 before the terminal is    *)
(* put in raw mode and before any image is loaded.                         *)
(***************************************************************************)
C30_Arguments ==
    /\ cli.phase \in {"main", "scan"} =>
          (~cli.termios /\ cli.prev_ios = {} /\ cli.loads = << >> /\ words = << >>)
    /\ (cli.phase \notin {"none", "main"} /\ Len(cli.args) > 0) =>
          /\ C30_Scanned \in 0 .. Len(cli.args)
          /\ \A k \in 1 .. C30_Scanned : \A j \in 1 .. (k - 1) : ~CliUnknownOption(j)
          /\ cli.default_os
                = ~(\E k \in 1 .. C30_Scanned : C30_Option(k, OPT_NO_DEFAULT_OS))
          /\ cli.virtual_trap_vector_table
                = (\E k \in 1 .. C30_Scanned : C30_Option(k, OPT_VIRTUAL_TRAP_VECTOR_TABLE))
          /\ cli.stop_options_processing
                = (\E k \in 1 .. C30_Scanned : cli.args[k] = <<45, 45>>)
          /\ cli.files = C30_Paths(C30_Scanned)
          /\ cli.phase \in {"os", "files", "run"} => C30_Scanned = Len(cli.args)
          /\ \A k \in 1 .. C30_Scanned :
                CliUnknownOption(k) =>
                   /\ k = C30_Scanned
                   /\ CliExited
                   /\ cli.exit = 2
                   /\ cli.error = "UnrecognizedOption"
                   /\ ~cli.termios
                   /\ cli.prev_ios = {}
                   /\ cli.lflag \in TerminalFlags
                   /\ cli.loads = << >>
                   /\ words = << >>
                   /\ runState = "idle"

\* "--", "--no-default-os", "-x": the operating system is about to be loaded
\* and the two arguments after "--" are the image paths
C30_Witness ==
    /\ cli.phase = "os"
    /\ cli.args = << <<45, 45>>, OPT_NO_DEFAULT_OS, <<45, 120>> >>
    /\ cli.files = << OPT_NO_DEFAULT_OS, <<45, 120>> >>
    /\ cli.default_os
    /\ cli.stop_options_processing
    /\ cli.termios

(***************************************************************************)
(* C31.  Once the terminal adapter has been constructed (canonical mode    *)
(* and echo disabled), on every exit path of the command-line program      *)
(* (image open or load failure, engine error, device error, clean halt)    *)
(* the terminal attributes are restored to exactly the values they had     *)
(* before construction, and this has happened when the process exits.      *)
(* (The terminal still accepts tcsetattr.)                                 *)
(***************************************************************************)
\* the adapter has been constructed at some time
C31_Constructed == cli.prev_ios # {}

C31_Restore ==
    /\ (C31_Constructed /\ ~CliExited) =>
          /\ cli.termios
          /\ cli.lflag = cli.prev_ios \ {"ICANON", "ECHO"}
          /\ cli.lflag # cli.prev_ios
    /\ (C31_Constructed /\ CliExited /\ ~cli.tcfail) =>
          /\ cli.lflag = cli.prev_ios
          /\ ~cli.termios
          /\ cli.lflag \in TerminalFlags
    /\ (CliExited /\ ~C31_Constructed) => cli.lflag \in TerminalFlags \cup {{}}

\* the program has exited with 1 after a device error in the run, and the
\* terminal has ICANON and ECHO again
C31_Witness ==
    /\ CliExited
    /\ C31_Constructed
    /\ ~cli.tcfail
    /\ cli.exit = 1
    /\ last.result = "Io"
    /\ runState = "err"
    /\ cli.lflag = {"ICANON", "ECHO", "ISIG"}

(***************************************************************************)
(* Vocabulary of C32: a set of condition codes as the set of its flags.    *)
(***************************************************************************)
\* the flags of a: 4 is N, 2 is Z, 1 is P
C32_Flags(a) == { f \in {1, 2, 4} : (a \div f) % 2 = 1 }

C33_Jsrr ==
    (last.op = "Jsr" /\ ~HasBit(last.inst, 11)) =>
        /\ last.result = "Ok"
        /\ registers[7] = P1
        /\ SR1 # 7 => pc = last.pre.registers[SR1]
        /\ SR1 = 7 => pc = P1
        /\ OtherRegsKept(7)
        /\ cc = last.pre.cc
        /\ MemoryKept

\* JSRR R7 at x301D, executed with R7 = x1234, has left PC = R7 = x301E
C33_Witness ==
    /\ last.op = "Jsr"
    /\ ~HasBit(last.inst, 11)
    /\ SR1 = 7
    /\ last.p = 12317
    /\ last.pre.registers[7] = 4660
    /\ pc = 12318
    /\ registers[7] = 12318

(***************************************************************************)
(* Vocabulary of C34 and C37: the addresses an image covers.               *)
(***************************************************************************)
\* the last call has loaded an image from a source that delivers in full
C34_LoadedInFull == call.kind = "load" /\ C27_InFull

\* the addresses of the complete words of the last image loaded that fit
\* below x10000 (none when the stream has no complete origin)
C34_Covered ==
    IF Len(call.stream) < 2 THEN {}
    ELSE { a \in C27_Origin .. (C27_Origin + C27_Count - 1) : a <= 65535 }

(***************************************************************************)
(* C34 as the specification words it, for one load after the others.       *)
(* After loading a sequence of images every address covered by at least    *)
(* one image holds the word of the last image that covers it and every     *)
(* address covered by none keeps its previous value: so the last image     *)
(* loaded has its words at the addresses it covers and every other address *)
(* is as the loads before it left it.                                      *)
(***************************************************************************)
C34_LastImageWins ==
    C34_LoadedInFull =>
        /\ \A a \in C34_Covered : WordAt(words, a) = C27_Payload(a - C27_Origin)
        /\ \A a \in (DOMAIN words \cup DOMAIN call.pre.words) \ C34_Covered :
              WordAt(words, a) = WordAt(call.pre.words, a)

(***************************************************************************)
(* The order of the loads of the command-line program: the embedded        *)
(* operating system first, unless --no-default-os is given, then the files *)
(* in the order of the command line.                                       *)
(***************************************************************************)
C34_CliOrder ==
    cli.phase \in {"files", "run"} =>
        /\ Len(cli.loads) = (IF cli.default_os THEN 1 ELSE 0) + (cli.fi - 1)
        /\ cli.default_os => cli.loads[1] = lc3os_img
        /\ \A k \in 1 .. (cli.fi - 1) :
              cli.loads[k + (IF cli.default_os THEN 1 ELSE 0)] = open(cli.files[k]).bytes
        /\ cli.files = C30_Paths(Len(cli.args))

(***************************************************************************)
(* C35.  A run always executes at least one instruction and can be started *)
(* again after a halt: it writes x8000 to MCR before its first test of the *)
(* clock, so a run on a machine whose MCR bit 15 is clear still executes   *)
(* the instruction at the start address; starting a run changes only MCR   *)
(* and PC and keeps R0 .. R7, CC and all other memory words.               *)
(***************************************************************************)
C35_RunStep ==
    /\ (runState # "running" /\ runState' = "running") =>
          /\ WordAt(words', MCR) = 32768
          /\ pc' = runAddr'
          /\ registers' = registers
          /\ cc' = cc
          /\ \A a \in (DOMAIN words \cup DOMAIN words') \ {MCR} :
                WordAt(words', a) = WordAt(words, a)
          /\ last'.op = "None"
    /\ (runState = "running" /\ last.op = "None") =>
          /\ nsteps' = nsteps + 1
          /\ last'.inrun
          /\ last'.p = runAddr
          /\ last'.pre = VM
          /\ runState' # "ok"
    /\ (runState = "running" /\ runState' = "ok") => (last.inrun /\ last.op # "None")

C35_Run == [][C35_RunStep]_vars

\* after a run that ended with the HALT trap, a second run has been started:
\* the clock is set again and the run has executed the instruction at its
\* start address
C35_Witness ==
    /\ runState \in {"running", "ok", "err"}
    /\ nsteps = 2
    /\ last.inrun
    /\ last.p = runAddr
    /\ last.pre.io.log = << <<"write", <<72, 65, 76, 84, 10>> >> >>
    /\ WordAt(last.pre.words, MCR) = 32768

(***************************************************************************)
(* C36 as the specification words it.  A BR whose mask is nzp (bits [11:9] *)
(* = 111) is an unconditional branch: whenever one has been executed, as   *)
(* the first instruction of the machine or later, PC is the branch target  *)
(* p + 1 + sext(PCoffset9).                                                *)
(***************************************************************************)
C36_BrNzp == last.op = "Br" /\ last.result = "Ok" /\ Field(last.inst, 11, 9) = 7

C36_Unconditional == C36_BrNzp => pc = Offset9

\* the same for the machines in which some flag is set: auxiliary, holds
C36_TakenWithFlag == (C36_BrNzp /\ last.pre.cc # CC_NONE) => pc = Offset9

(***************************************************************************)
(* C37 as the specification words it.  load_image changes only the memory  *)
(* words at origin .. origin + n - 1, n the number of complete 16-bit      *)
(* words of the payload: every word outside that range, the one after a    *)
(* trailing odd byte and address 0 after a payload cut at xFFFF included,  *)
(* is as it was before the load.  Stated for the loads whose reads         *)
(* deliver every byte asked for.                                           *)
(***************************************************************************)
C37_Outside == (DOMAIN words \cup DOMAIN call.pre.words) \ C34_Covered

C37_OnlyPayloadWords ==
    C34_LoadedInFull =>
        \A a \in C37_Outside : WordAt(words, a) = WordAt(call.pre.words, a)

\* the parts of C37 that hold: a payload is cut at xFFFF and never wraps to
\* address 0 or below the origin, and an empty stream changes nothing
C37_NoWrap ==
    (C34_LoadedInFull /\ Len(call.stream) >= 2) =>
        \A a \in 0 .. (C27_Origin - 1) : WordAt(words, a) = WordAt(call.pre.words, a)

C37_Empty == (call.kind = "load" /\ call.stream = << >>) => words = call.pre.words

(***************************************************************************)
(* C38 as the specification words it.  For every value of R0 and every     *)
(* memory content the scan of the emulated PUTSP ends inside the array of  *)
(* 65,536 words: whenever the trap has been executed, a NUL byte lay       *)
(* between the low byte of the word at R0 and the high byte of the word at *)
(* xFFFF, so that no byte after that one was read, and the step has not    *)
(* ended in a fault of the host.                                           *)
(***************************************************************************)
C38_PutSpStep == last.op = "Trap" /\ last.virt /\ Field(last.inst, 7, 0) = 36

C38_ScanInArray ==
    C38_PutSpStep =>
        /\ C21_Ends(last.pre.words, last.pre.registers[0])
        /\ last.result # "Fault"

\* where a NUL byte does lie before the end of the array the step never
\* faults: auxiliary, holds
C38_EndedScan ==
    (C38_PutSpStep /\ C21_Ends(last.pre.words, last.pre.registers[0])) =>
        last.result \in {"Ok", "Io"}

====
